---- MODULE Spec2Model ----
(***************************************************************************)
(* WebCall signaling server: the per-callee hub, the WebSocket endpoints   *)
(* (WsClient), the upgrade handler serve(), the frame handler              *)
(* receiveProcess(), the teardown peerConHasEnded() and the KeepAliveMgr.  *)
(*                                                                         *)
(* One hub is modelled.  Endpoints are the WsClient objects that serve()   *)
(* creates for the upgrades bound to that hub.  Each handler is one        *)
(* action; serve() is split where its unlocked reads of the hub slots are  *)
(* separated from the locked assignments (lines 271/299 against 280/312).  *)
(* A socket delivers frames and closes once its serve() has returned.      *)
(* The hub methods doUnregister, setDeadline, processTimeValues and the    *)
(* helpers addMissedCall, missedCall, StoreCallerIpInHubMap,               *)
(* waitingCallerToCallee and the HTTP front-end of the waiting callers     *)
(* live in files that are not part of src/; they follow the specification  *)
(* text and the comments of the callers.                                   *)
(*                                                                         *)
(* Specifications:                                                         *)
(*   Spec       one callee and one caller, every frame, the clock          *)
(*   SpecAdmit  three upgrades racing for the two slots                    *)
(*   SpecKa     one registered socket against the keep-alive scanner       *)
(*   SpecKaActive the same socket with inbound events at any time           *)
(*   SpecPrune  the callee's init over a stored waitingCallers list        *)
(*   SpecMissed the callee's deleteMissedCall over a stored list           *)
(*   SpecTicket three upgrades with any wsid over any pending-attach map   *)
(*   SpecSession three upgrades, the connection reports and the teardowns  *)
(*   SpecRole   one callee and one caller, the callee's profile commands,  *)
(*              the HTTP requests of waiting callers                       *)
(*   SpecShutdown main()'s shutdown sequence against the keep-alive scanner *)
(*   SpecStats  readStatsFile at startup over any stats file, the rewrite   *)
(*   SpecLock   the tasks' lock, field and socket operations on Hub.HubMutex *)
(***************************************************************************)
EXTENDS Integers, Sequences, FiniteSets, TLC

\* ---------------------------------------------------------------- bounds
NumEndpoints == 3
NumPaired == 2
MaxNow == 1
MaxMissedCalls == 2
MaxWaiting == 4
MaxStoredMissed == 3
MaxInboundTime == 3
MaxKaTime == 90
StartTime == 1000
UintBits == 4
NumTickets == 2
NumTasks == 2
IntBits == 5
MaxShutdownSecs == 5

\* ----------------------------------------------------- program constants
pingPeriod == 60
readDeadlineSecs == 20
scanPeriod == 2
watchdogDelaySecs == 11
waitingCallerMaxAge == 600
maxRingSecs == 120
maxTalkSecsIfNoP2p == 600
disconCalleeOnPeerConnected == FALSE
disconCallerOnPeerConnected == TRUE
graceSecs == 2

Endpoints == 1..NumEndpoints
Paired == 1..NumPaired
UserReads == {"err", "store", "nostore"}
None == 0
MaxUint == 2^UintBits - 1
MaxInt == 2^(IntBits - 1) - 1
Tickets == 1..NumTickets
Tasks == 1..NumTasks

VARIABLES
  hub,              \* the Hub object
  cl,               \* Endpoints -> WsClient fields
  watchdog,         \* endpoints whose no-peer-con goroutine is sleeping
  now,              \* time.Now().Unix()
  missedCalls,      \* kvCalls[dbMissedCalls][calleeID]
  waitingCallers,   \* kvCalls[dbWaitingCaller][calleeID]
  offersFwd,        \* history: callerOffer frames of e written to the callee
  pickupInSession,  \* history: a pickup set lastCallStartTime since the last caller admission
  mediaInSession,   \* history: a callee Connected/ConForce report was handled since the last caller admission
  wsClientMap,      \* pending-attach map: ticket -> removeFlag
  dbUserInt2,       \* the bits set in dbUser.Int2 of the callee's user record
  releasedCallers,  \* addresses whose waitingCallerChanMap channel got a signal
  waitingCallerChanMap, \* addresses with a channel on which an HTTP request is receiving
  proc,             \* the server process: main()'s position, the stats counters and file
  lk,               \* Hub.HubMutex and the tasks that take it: each task's code position
  ka                \* one socket under the KeepAliveMgr, and the scanner

hubVars == <<hub, cl, watchdog, now, missedCalls, waitingCallers,
             offersFwd, pickupInSession, mediaInSession, wsClientMap,
             dbUserInt2, releasedCallers, waitingCallerChanMap, proc, lk>>

vars == <<hub, cl, watchdog, now, missedCalls, waitingCallers,
          offersFwd, pickupInSession, mediaInSession, wsClientMap,
          dbUserInt2, releasedCallers, waitingCallerChanMap, proc, lk, ka>>

\* ------------------------------------------------------------ data shapes
NewClient ==
  [st |-> "new", pc |-> "none", role |-> "", isCallee |-> FALSE, isOnline |-> FALSE,
   isConnectedToPeer |-> FALSE, isMediaConnectedToPeer |-> FALSE,
   pickupSent |-> FALSE, calleeInitReceived |-> FALSE,
   callerOfferForwarded |-> FALSE, clearOnCloseDone |-> FALSE,
   callerTextMsg |-> FALSE]

NewHub ==
  [CalleeClient |-> None, CallerClient |-> None, lastCallStartTime |-> 0,
   CallDurationSecs |-> 0, ConnectedToPeerSecs |-> 0,
   LocalP2p |-> FALSE, RemoteP2p |-> FALSE, deadline |-> "none",
   callerIp |-> None, IsCalleeHidden |-> FALSE]

\* the three today-counters (src/main.go lines 122-126) and their ini keys
StatKeys ==
  {"numberOfCallsToday", "numberOfCallSecondsToday", "lastCurrentDayOfMonth"}

ZeroCounters == [k \in StatKeys |-> 0]

\* one key of the stats file: missing, or present with the text after "="
NoEntry == [present |-> FALSE, str |-> <<>>]
Entry(str) == [present |-> TRUE, str |-> str]

\* no stats file on disk: ini.Load fails
NoStatsFile == [exists |-> FALSE, entries |-> [k \in StatKeys |-> NoEntry]]

\* the process at the top of main(), before readStatsFile (src/main.go line
\* 278); log is the history of main()'s shutdown steps, the ...At fields the
\* scanner clock at which a step was taken; -1 stands for not yet
StartProc ==
  [pc |-> "start", shutdownStarted |-> FALSE, counters |-> ZeroCounters,
   statsFile |-> NoStatsFile, signalAt |-> -1, flagAt |-> -1,
   statsAt |-> -1, closeAt |-> -1, exitCode |-> -1, log |-> <<>>]

\* the process waiting for a signal (src/main.go lines 382-384)
NewProc == [StartProc EXCEPT !.pc = "serving"]

\* Hub.HubMutex, a sync.RWMutex: the tasks holding it in read mode, the task
\* holding it in write mode; at: the handler each task runs ("idle": none)
\* and the index of its next operation
NewLock ==
  [readers |-> {}, writer |-> None,
   at |-> [t \in Tasks |-> [path |-> "idle", idx |-> 1]]]

\* The part of the state one handler works on.  Handlers are functions on this
\* record: they return the new state together with the socket writes they made
\* (out, in order) and the calls that leave no mark in the state (ev).  The
\* action commits the state; out and ev are what the peers observe of the step.
World ==
  [hub |-> hub, cl |-> cl, missedCalls |-> missedCalls,
   waitingCallers |-> waitingCallers, offersFwd |-> offersFwd,
   pickupInSession |-> pickupInSession, mediaInSession |-> mediaInSession,
   wsClientMap |-> wsClientMap, dbUserInt2 |-> dbUserInt2,
   releasedCallers |-> releasedCallers,
   waitingCallerChanMap |-> waitingCallerChanMap,
   out |-> <<>>, ev |-> {}]

\* A closed WsClient that no hub slot references and whose serve() has returned
\* is garbage: nothing reads it again.
Unreachable(W, e) ==
  /\ W.cl[e].st = "closed"
  /\ W.cl[e].pc = "done"
  /\ W.hub.CalleeClient # e
  /\ W.hub.CallerClient # e

Collect(W) ==
  [W EXCEPT !.cl = [e \in Endpoints |->
                      IF Unreachable(W, e)
                      THEN [NewClient EXCEPT !.st = "closed", !.pc = "done"]
                      ELSE W.cl[e]],
            !.offersFwd = [e \in Endpoints |->
                             IF Unreachable(W, e) THEN 0 ELSE W.offersFwd[e]]]

Commit(V) ==
  LET W == Collect(V) IN
  /\ Len(W.missedCalls) <= MaxMissedCalls \/ Len(W.missedCalls) <= Len(missedCalls)
  /\ hub' = W.hub
  /\ cl' = W.cl
  /\ missedCalls' = W.missedCalls
  /\ waitingCallers' = W.waitingCallers
  /\ offersFwd' = W.offersFwd
  /\ pickupInSession' = W.pickupInSession
  /\ mediaInSession' = W.mediaInSession
  /\ wsClientMap' = W.wsClientMap
  /\ dbUserInt2' = W.dbUserInt2
  /\ releasedCallers' = W.releasedCallers
  /\ waitingCallerChanMap' = W.waitingCallerChanMap
  /\ proc' = proc
  /\ lk' = lk
  /\ ka' = ka

Ev(W, e) == [W EXCEPT !.ev = @ \cup {e}]

\* ------------------------------------------------------- WsClient.Write
\* a Write that sends whatever isOnline says
WriteAlways(W, t) == TRUE

\* lines 1075-1079
WriteOk(W, t) == W.cl[t].isOnline

\* the error Write returns
WriteErr(W, t) == IF WriteOk(W, t) THEN "nil" ELSE "ErrWriteNotConnected"

\* body: the data a message carries, where a property reads it
WriteBody(W, t, msg, from, body) ==
  IF WriteOk(W, t)
  THEN [W EXCEPT !.out = Append(@, [to |-> t, msg |-> msg, from |-> from,
                                    body |-> body])]
  ELSE W

Write(W, t, msg, from) == WriteBody(W, t, msg, from, <<>>)

\* ------------------------------------------------------- WsClient.Close
Close(W, t) ==
  IF W.cl[t].isOnline
  THEN [W EXCEPT !.cl[t].st = IF @ = "open" THEN "closing" ELSE @]
  ELSE W

\* ----------------------------------------------------------- hub helpers
setDeadline(W, kind) ==
  IF kind = "none"
  THEN Ev([W EXCEPT !.hub.deadline = "none"], "disarm")
  ELSE Ev([W EXCEPT !.hub.deadline = kind], "arm")

processTimeValues(W) ==
  LET d == now - W.hub.lastCallStartTime IN
  [W EXCEPT !.hub.CallDurationSecs = d,
            !.hub.ConnectedToPeerSecs = @ + d]

StoreCallerIpInHubMap(W, addr) == [W EXCEPT !.hub.callerIp = addr]

addMissedCall(W, addr, txt) ==
  Ev([W EXCEPT !.missedCalls =
        Append(@, [AddrPort |-> addr, CallTime |-> now, msg |-> txt])],
     "addMissedCall")

doBroadcast(W, msg) ==
  LET W1 == IF W.hub.CalleeClient # None
            THEN Write(W, W.hub.CalleeClient, msg, None) ELSE W
  IN IF W1.hub.CallerClient # None
     THEN Write(W1, W1.hub.CallerClient, msg, None) ELSE W1

\* ------------------------------------------- WsClient.peerConHasEnded
\* user: what kvMain.Get(dbUserBucket, userKey) returns at this moment: "err", or
\* the record with StoreMissedCalls set ("store") or unset ("nostore").
PeerConTeardown(W, c, user) ==
  LET caller == W.hub.CallerClient
      W1 == [W EXCEPT !.cl[c].isConnectedToPeer = FALSE,
                      !.cl[c].isMediaConnectedToPeer = FALSE]
      W2 == IF caller # None
            THEN [W1 EXCEPT !.cl[caller].isConnectedToPeer = FALSE,
                            !.cl[caller].isMediaConnectedToPeer = FALSE]
            ELSE W1
      W3 == IF W2.hub.CallDurationSecs <= 0
            THEN LET R == Ev(W2, user)
                 IN IF user = "store"
                    THEN addMissedCall(R, caller, R.cl[c].callerTextMsg)
                    ELSE R
            ELSE W2
      W4 == StoreCallerIpInHubMap(W3, None)
  IN Ev([W4 EXCEPT !.hub.CallerClient = None], "teardown")

peerConHasEnded(W, c, user) ==
  LET W0 == Ev(W, "peerConHasEnded")
      W1 == setDeadline(W0, "none")
      W2 == IF W1.hub.lastCallStartTime > 0
            THEN [processTimeValues(W1) EXCEPT !.hub.lastCallStartTime = 0]
            ELSE W1
  IN IF ~W2.cl[c].isCallee
     THEN W2
     ELSE LET W3 == Ev([W2 EXCEPT !.cl[c].calleeInitReceived = FALSE], "pcheCallee")
          IN IF W3.cl[c].isConnectedToPeer
             THEN PeerConTeardown(W3, c, user)
             ELSE W3

\* -------------------------------------------------------- Hub.doUnregister
doUnregister(W, c) ==
  IF W.cl[c].isCallee
  THEN LET W1 == IF ~W.cl[c].clearOnCloseDone
                 THEN LET A == setDeadline(W, "none")
                          B == IF A.hub.lastCallStartTime > 0
                               THEN [processTimeValues(A) EXCEPT
                                        !.hub.lastCallStartTime = 0]
                               ELSE A
                      IN [B EXCEPT !.cl[c].clearOnCloseDone = TRUE]
                 ELSE W
       IN [W1 EXCEPT !.hub.CalleeClient = None]
  ELSE W

\* ------------------------------------------------------------ KeepAliveMgr
\* The socket of one client: clock is time.Now() in seconds, pingSendTime the
\* KeepAliveSessionData of the socket, readDeadline the read deadline of the
\* connection (None: cleared).  phase is the offset of the scanner's ticker,
\* scanned says that the tick of this second was handled.  quietSince, pingAt
\* and closedAt record when the last inbound frame, the first PING after it and
\* the close happened.
NewKa(phase) ==
  [clock |-> 0, phase |-> phase, scanned |-> FALSE, closed |-> FALSE,
   stopped |-> FALSE, pingAfterFlag |-> FALSE,
   pinged |-> FALSE, lapsed |-> FALSE,
   pingSendTime |-> pingPeriod, readDeadline |-> None,
   quietSince |-> 0, pingAt |-> None, closedAt |-> None]

\* lines 1274-1278
SetPingDeadline(k, secs) == [k EXCEPT !.pingSendTime = k.clock + secs]

\* lines 1237-1253, called with maxWaitMS = -1
SendPing(k) ==
  [SetPingDeadline(k, pingPeriod) EXCEPT
     !.readDeadline = k.clock + readDeadlineSecs,
     !.pingAt = IF @ = None THEN k.clock ELSE @]

\* variant of PingDue that lets one more scan period pass
PingDueAfterGrace(timeNow, pingSendTime) == timeNow > pingSendTime + scanPeriod

\* line 1313: timeNow.After(keepAliveSessionData.pingSendTime)
PingDue(timeNow, pingSendTime) == timeNow > pingSendTime

TickerFires(k) == k.clock % scanPeriod = k.phase

\* os.Exit has not been reached
Running == proc.pc # "exited"

\* a scanner that never looks at the shutdown flag
ScannerNeverBreaks(p) == FALSE

\* lines 1296-1298: if shutdownStarted.Get() { break }
ScannerBreaks(p) == p.shutdownStarted

\* main()'s steps from the signal on take less than MaxShutdownSecs
ShutdownClockOk ==
  proc.signalAt < 0 \/ ka.clock < proc.signalAt + MaxShutdownSecs

\* an inbound event that leaves the time of the next PING as it is
InboundEventKeepsPing(k) ==
  [k EXCEPT !.readDeadline = None, !.quietSince = k.clock, !.pingAt = None]

\* lines 195-200, 219-227, 229-238: OnMessage, the pong handler and the ping
\* handler each clear the read deadline and call SetPingDeadline(pingPeriod)
InboundEvent(k) ==
  [SetPingDeadline(k, pingPeriod) EXCEPT
     !.readDeadline = None, !.quietSince = k.clock, !.pingAt = None]

\* lines 195-245: a frame, a PING or a PONG arrives from the client
KaInbound ==
  /\ Running
  /\ ~ka.closed
  /\ ka.clock <= MaxInboundTime
  /\ ka' = InboundEvent(ka)
  /\ UNCHANGED hubVars

\* the same, at any time
KaInboundAnyTime ==
  /\ Running
  /\ ~ka.closed
  /\ ka' = InboundEvent(ka)
  /\ UNCHANGED hubVars

\* lines 1292-1322: one round of KeepAliveMgr.Run
KaScan ==
  /\ Running
  /\ TickerFires(ka)
  /\ ~ka.scanned
  /\ ~ka.stopped
  /\ ka' = IF ScannerBreaks(proc)
           THEN [ka EXCEPT !.stopped = TRUE, !.scanned = TRUE]
           ELSE [(IF ~ka.closed /\ PingDue(ka.clock, ka.pingSendTime)
                  THEN [SendPing(ka) EXCEPT
                          !.pingAfterFlag = @ \/ proc.shutdownStarted,
                          !.pinged = TRUE]
                  ELSE ka) EXCEPT !.scanned = TRUE]
  /\ UNCHANGED hubVars

ReadDeadlinePassed(k) ==
  ~k.closed /\ k.readDeadline # None /\ k.clock >= k.readDeadline

\* the read deadline of the connection passes: the socket is closed and
\* OnClose (lines 247-252) deletes it from the KeepAliveMgr
KaReadTimeout ==
  /\ Running
  /\ ReadDeadlinePassed(ka)
  /\ ka' = [ka EXCEPT !.closed = TRUE, !.closedAt = ka.clock]
  /\ UNCHANGED hubVars

\* one second passes, once the ticker and the read deadline of this second
\* were served
KaTick ==
  /\ Running
  /\ ka.clock < MaxKaTime
  /\ ShutdownClockOk
  /\ TickerFires(ka) /\ ~ka.stopped => ka.scanned
  /\ ~ReadDeadlinePassed(ka)
  /\ ka' = [ka EXCEPT !.clock = @ + 1, !.scanned = FALSE,
                      !.lapsed = @ \/ ka.clock + 1 - ka.quietSince > pingPeriod]
  /\ UNCHANGED hubVars

\* ------------------------------------------------------------------ Init
InitHub ==
  /\ ka = NewKa(0)
  /\ hub = NewHub
  /\ cl = [e \in Endpoints |-> NewClient]
  /\ watchdog = {}
  /\ now = StartTime
  /\ missedCalls = <<>>
  /\ waitingCallers = <<>>
  /\ offersFwd = [e \in Endpoints |-> 0]
  /\ pickupInSession = FALSE
  /\ mediaInSession = FALSE
  /\ dbUserInt2 = {}
  /\ releasedCallers = {}
  /\ waitingCallerChanMap = {}
  /\ proc = NewProc
  /\ lk = NewLock
  /\ wsClientMap = [t \in Tickets |-> FALSE]

\* ------------------------------------------------------------------ serve
\* The wsid argument of the upgrade URL: present says that the query has the
\* key, str is its value as a sequence of characters.
NoWsid == [present |-> FALSE, str |-> <<>>]
Wsid(str) == [present |-> TRUE, str |-> str]

Queries ==
  { NoWsid, Wsid(<<>>), Wsid(<<"0">>), Wsid(<<"1">>), Wsid(<<"2">>),
    Wsid(<<"3">>), Wsid(<<"0", "2">>), Wsid(<<"x">>), Wsid(<<"1", "x">>),
    Wsid(<<"9", "9">>) }

DigitVal(ch) ==
  CASE ch = "0" -> 0 [] ch = "1" -> 1 [] ch = "2" -> 2 [] ch = "3" -> 3
    [] ch = "4" -> 4 [] ch = "5" -> 5 [] ch = "6" -> 6 [] ch = "7" -> 7
    [] ch = "8" -> 8 [] ch = "9" -> 9 [] OTHER -> -1

RECURSIVE Decimal(_)
Decimal(str) ==
  IF str = <<>> THEN 0
  ELSE 10 * Decimal(SubSeq(str, 1, Len(str) - 1)) + DigitVal(str[Len(str)])

\* strconv.ParseUint(str, 10, UintBits), its error dropped (line 116): 0 on a
\* syntax error, the largest value on a range error
ParseUint(str) ==
  IF str = <<>> \/ \E i \in 1..Len(str) : DigitVal(str[i]) < 0 THEN 0
  ELSE IF Decimal(str) > MaxUint THEN MaxUint
  ELSE Decimal(str)

\* lines 109-122
wsClientID64(q) ==
  IF ~q.present \/ Len(q.str) <= 0 THEN 0 ELSE ParseUint(q.str)

\* a lookup that takes any nonzero id for a pending ticket
AnyTicketAccepted(W, q) == wsClientID64(q) > 0

\* lines 117-138
TicketAccepted(W, q) ==
  wsClientID64(q) > 0 /\ wsClientID64(q) \in DOMAIN W.wsClientMap

\* lines 109-278, 299-311: the ticket is looked up and its removeFlag
\* cleared, the WsClient is created and its handlers registered; then the two
\* slots are read without the hub mutex and the client fields of the chosen
\* role are set.
serveUpgrade(W, e, q) ==
  IF ~TicketAccepted(W, q) THEN W
  ELSE
    LET W0 == [W EXCEPT !.wsClientMap[wsClientID64(q)] = FALSE,
                        !.cl[e].st = "open", !.cl[e].isOnline = TRUE]
    IN IF W.hub.CalleeClient = None
       THEN [W0 EXCEPT !.cl[e].pc = "callee", !.cl[e].role = "callee",
                       !.cl[e].isCallee = TRUE,
                       !.cl[e].calleeInitReceived = FALSE]
       ELSE IF W.hub.CallerClient = None
       THEN [W0 EXCEPT !.cl[e].pc = "caller", !.cl[e].role = "caller",
                       !.cl[e].isCallee = FALSE,
                       !.cl[e].callerOfferForwarded = FALSE]
       ELSE [W0 EXCEPT !.cl[e].pc = "done", !.cl[e].role = "refused"]

ServeUpgrade(e) ==
  /\ cl[e].st = "new"
  /\ \A d \in Endpoints : d < e => cl[d].st # "new"
  /\ \E q \in Queries : Commit(serveUpgrade(World, e, q))
  /\ UNCHANGED <<watchdog, now>>

\* lines 280-296
ServeCallee(e) ==
  /\ cl[e].pc = "callee"
  /\ LET W == [World EXCEPT !.cl[e].pc = "done",
                            !.hub.IsCalleeHidden = (1 \in dbUserInt2),
                            !.hub.CalleeClient = e,
                            !.hub.CallerClient = None,
                            !.hub.ConnectedToPeerSecs = 0,
                            !.hub.CallDurationSecs = 0]
     IN Commit(W)
  /\ UNCHANGED <<watchdog, now>>

\* lines 312-317
ServeCaller(e) ==
  /\ cl[e].pc = "caller"
  /\ LET W == [World EXCEPT !.cl[e].pc = "done",
                            !.hub.CallDurationSecs = 0,
                            !.hub.CallerClient = e,
                            !.pickupInSession = FALSE,
                            !.mediaInSession = FALSE]
     IN Commit(W)
  /\ watchdog' = watchdog \cup {e}
  /\ UNCHANGED now

\* a watchdog that does not look at callerOfferForwarded
noPeerConCheckAnyCaller(W) ==
  IF /\ W.hub.CalleeClient # None
     /\ ~W.cl[W.hub.CalleeClient].isConnectedToPeer
     /\ W.hub.CallerClient # None
  THEN LET W1 == Write(W, W.hub.CallerClient, "status", None)
           W2 == Write(W1, W.hub.CalleeClient, "status", None)
           W3 == [W2 EXCEPT !.hub.CallerClient = None]
       IN Ev(StoreCallerIpInHubMap(W3, None), "noPeerCon")
  ELSE W

\* lines 323-361: what the goroutine does once it wakes
noPeerConCheck(W) ==
  IF /\ W.hub.CalleeClient # None
     /\ ~W.cl[W.hub.CalleeClient].isConnectedToPeer
     /\ W.hub.CallerClient # None
     /\ W.cl[W.hub.CallerClient].callerOfferForwarded
  THEN LET W1 == Write(W, W.hub.CallerClient, "status", None)
           W2 == Write(W1, W.hub.CalleeClient, "status", None)
           W3 == [W2 EXCEPT !.hub.CallerClient = None]
       IN Ev(StoreCallerIpInHubMap(W3, None), "noPeerCon")
  ELSE W

\* lines 317-362: the goroutine wakes after 11 s
WatchdogFire(e) ==
  /\ e \in watchdog
  /\ watchdog' = watchdog \ {e}
  /\ Commit(noPeerConCheck(World))
  /\ UNCHANGED now

\* a close handler that ends the peer connection for either role
CloseRunAnyRole(e, user) ==
  LET W0 == [World EXCEPT !.cl[e].st = "closed", !.cl[e].isOnline = FALSE]
  IN IF W0.cl[e].isConnectedToPeer
     THEN peerConHasEnded(W0, e, user)
     ELSE W0

\* lines 247-263: the close handler of e, up to doUnregister
CloseRun(e, user) ==
  LET W0 == [World EXCEPT !.cl[e].st = "closed", !.cl[e].isOnline = FALSE]
  IN IF W0.cl[e].isCallee /\ W0.cl[e].isConnectedToPeer
     THEN peerConHasEnded(W0, e, user)
     ELSE W0

\* lines 247-269
OnClose(e, user) ==
  /\ cl[e].st \in {"open", "closing"}
  /\ cl[e].pc = "done"
  /\ Commit(doUnregister(CloseRun(e, user), e))
  /\ UNCHANGED <<watchdog, now>>

\* ------------------------------------------------------------- frames
\* A frame is the sequence of its "|"-separated fields; a payload is the
\* sequence of its " "-separated words, a mode word the sequence of its
\* "/"-separated parts (what strings.Split returns at lines 385, 899, 936).
LogFrame(constate, l, r) == <<"log", <<"side", constate, <<l, r>>>>>>

InitFrame == <<"init", <<>>>>
CancelFrame == <<"cancel", <<"c">>>>

Frames ==
  { InitFrame, <<"callerOffer", <<"sdp">>>>, CancelFrame,
    <<"pickup", <<"a">>>>, <<"msg", <<"text">>>>, <<"check", <<"n">>>>,
    <<"heartbeat", <<>>>>, <<"candidate", <<"x">>>>, <<"candidate", <<>>>>,
    <<"nopipe">>, <<"candidate", <<"x">>, <<"y">>>>,
    LogFrame("Incoming", "p2p", "p2p"), LogFrame("Connected", "p2p", "p2p"),
    LogFrame("Connected", "relay", "p2p"), LogFrame("ConForce", "relay", "p2p"),
    LogFrame("Other", "p2p", "p2p") }

\* callerID / callerName of the upgrade request (lines 140-150)
HasCallerInfo(e) == e % 2 = 0

\* ------------------------------------------------ waitingCaller pruning
\* lines 465-477: the range loop runs over the indexes of the slice as it was
\* when the loop started (n), and removes in place.
RemoveAt(s, i) == SubSeq(s, 1, i - 1) \o SubSeq(s, i + 1, Len(s))

Outdated(w, t) == t - w.CallTime > waitingCallerMaxAge

RECURSIVE PruneLoop(_, _, _, _, _)
PruneLoop(s, idx, n, t, count) ==
  IF idx > n \/ idx > Len(s)
  THEN [list |-> s, countOutdated |-> count]
  ELSE IF Outdated(s[idx], t)
       THEN PruneLoop(RemoveAt(s, idx), idx + 1, n, t, count + 1)
       ELSE PruneLoop(s, idx + 1, n, t, count)

PruneWaiting(s, t) == PruneLoop(s, 1, Len(s), t, 0)

\* pushes both lists to the callee
waitingCallerToCallee(W, c, waiting) ==
  IF WriteOk(W, c)
  THEN [W EXCEPT !.out = @ \o << [to |-> c, msg |-> "waitingCallers", from |-> None,
                                  body |-> waiting],
                                 [to |-> c, msg |-> "missedCalls", from |-> None,
                                  body |-> <<>>] >>]
  ELSE W

\* ------------------------------------------- receiveProcess, per command
\* lines 413-505.  oldClient: c.clientVersion < clientUpdateBelowVersion.
RecvInitFirst(W, c, oldClient) ==
  LET W1 == [W EXCEPT !.hub.CallerClient = None,
                      !.cl[c].calleeInitReceived = TRUE,
                      !.cl[c].pickupSent = FALSE,
                      !.cl[c].clearOnCloseDone = FALSE,
                      !.cl[c].callerTextMsg = FALSE]
  IN IF ~WriteOk(W1, c)
     THEN W1
     ELSE
       LET W2 == Write(W1, c, "sessionId", None)
       IN IF oldClient
          THEN Write(W2, c, "status", None)
          ELSE
            LET P == PruneWaiting(W2.waitingCallers, now)
                W3 == IF P.countOutdated > 0
                      THEN [W2 EXCEPT !.waitingCallers = P.list]
                      ELSE W2
            IN IF Len(P.list) > 0 \/ Len(W3.missedCalls) > 0
               THEN waitingCallerToCallee(W3, c, P.list)
               ELSE W3

\* variant of RecvInit without the calleeInitReceived test of line 406
RecvInitNoLatch(W, c, oldClient) ==
  IF ~W.cl[c].isCallee
  THEN Write(W, c, "cancel|busy", None)
  ELSE RecvInitFirst(W, c, oldClient)

\* lines 398-411
RecvInit(W, c, oldClient) ==
  IF ~W.cl[c].isCallee
  THEN Write(W, c, "cancel|busy", None)
  ELSE IF W.cl[c].calleeInitReceived
  THEN W
  ELSE RecvInitFirst(W, c, oldClient)

\* lines 536-543: missedCall(payload, c.RemoteAddr, "cmd=missedcall") records a
\* missed call of the sender's address with the payload's text
missedCall(W, addr) == addMissedCall(W, addr, TRUE)

RecvMissedCall(W, c) == missedCall(W, c)

\* lines 513-534
RecvMsg(W, c) ==
  IF W.hub.CalleeClient = None
  THEN W
  ELSE [W EXCEPT !.cl[W.hub.CalleeClient].callerTextMsg = TRUE]

\* a forward that swaps the user agents before it sends callerInfo
ForwardCallerOfferUaFirst(W, c, payload, latch) ==
  LET callee == W.hub.CalleeClient
      caller == W.hub.CallerClient
  IN
  IF W.cl[c].callerOfferForwarded THEN W
  ELSE IF callee = None THEN W
  ELSE IF caller = None THEN W
  ELSE IF ~WriteOk(W, callee) THEN W
  ELSE
    LET W1 == [WriteBody(W, callee, "callerOffer", c, payload) EXCEPT
                 !.cl[c].callerOfferForwarded = latch,
                 !.offersFwd[c] = IF @ < 2 THEN @ + 1 ELSE @]
    IN IF ~WriteOk(W1, caller)
       THEN W1
       ELSE
         LET W3 == Write(W1, caller, "ua", None)
             W4 == Write(W3, callee, "ua", None)
             W2 == IF HasCallerInfo(caller)
                   THEN Write(W4, callee, "callerInfo", None)
                   ELSE W4
             W5 == IF maxRingSecs > 0 THEN setDeadline(W2, "ring") ELSE W2
         IN StoreCallerIpInHubMap(W5, c)

\* lines 545-617.  latch: the value line 579 stores in c.callerOfferForwarded.
ForwardCallerOffer(W, c, payload, latch) ==
  LET callee == W.hub.CalleeClient
      caller == W.hub.CallerClient
  IN
  IF W.cl[c].callerOfferForwarded THEN W
  ELSE IF callee = None THEN W
  ELSE IF caller = None THEN W
  ELSE IF ~WriteOk(W, callee) THEN W
  ELSE
    LET W1 == [WriteBody(W, callee, "callerOffer", c, payload) EXCEPT
                 !.cl[c].callerOfferForwarded = latch,
                 !.offersFwd[c] = IF @ < 2 THEN @ + 1 ELSE @]
        W2 == IF HasCallerInfo(caller)
              THEN Write(W1, callee, "callerInfo", None)
              ELSE W1
    IN IF ~WriteOk(W2, caller)
       THEN W2
       ELSE
         LET W3 == Write(W2, caller, "ua", None)
             W4 == Write(W3, callee, "ua", None)
             W5 == IF maxRingSecs > 0 THEN setDeadline(W4, "ring") ELSE W4
         IN StoreCallerIpInHubMap(W5, c)

\* variant of RecvCallerOffer that never latches callerOfferForwarded
RecvCallerOfferNoLatch(W, c, payload) == ForwardCallerOffer(W, c, payload, FALSE)

RecvCallerOffer(W, c, payload) == ForwardCallerOffer(W, c, payload, TRUE)

\* a cancel handler that closes the sender whenever no teardown runs
RecvCancelCloseStray(W, c, user) ==
  LET callee == W.hub.CalleeClient IN
  IF callee # None /\ W.cl[callee].isConnectedToPeer
  THEN peerConHasEnded(W, callee, user)
  ELSE Close(W, c)

\* lines 623-658
RecvCancel(W, c, user) ==
  LET callee == W.hub.CalleeClient IN
  IF callee = None
  THEN Close(W, c)
  ELSE IF W.cl[callee].isConnectedToPeer
       THEN peerConHasEnded(W, callee, user)
       ELSE W

\* lines 817-852
RecvPickup(W, c) ==
  IF ~W.cl[c].isConnectedToPeer THEN W
  ELSE IF W.cl[c].pickupSent THEN W
  ELSE
    LET W1 == Ev([W EXCEPT !.hub.lastCallStartTime = now,
                           !.pickupInSession = TRUE], "pickup")
        W2 == IF W1.hub.CallerClient # None
              THEN [Write(W1, W1.hub.CallerClient, "pickup", c) EXCEPT
                      !.cl[c].pickupSent = TRUE]
              ELSE W1
    IN setDeadline(W2, "none")

\* lines 787-788: AddrPort + "_" + FormatInt(CallTime), as its three parts
MissedCallId(r) == <<r.AddrPort, "_", r.CallTime>>

\* lines 786-812: the index of the first record whose id is the payload, or 0
RECURSIVE FirstMatch(_, _, _)
FirstMatch(s, idx, key) ==
  IF idx > Len(s) THEN 0
  ELSE IF MissedCallId(s[idx]) = key THEN idx
  ELSE FirstMatch(s, idx + 1, key)

\* lines 759-815
RecvDeleteMissedCall(W, c, key, user) ==
  LET R == Ev(W, user)
      missedCallsSlice == IF user = "store" THEN R.missedCalls ELSE <<>>
      idx == FirstMatch(missedCallsSlice, 1, key)
  IN IF idx = 0
     THEN R
     ELSE LET left == RemoveAt(missedCallsSlice, idx)
              W1 == [R EXCEPT !.missedCalls = left]
          IN IF W1.hub.CalleeClient # None
             THEN WriteBody(W1, W1.hub.CalleeClient, "missedCalls", None, left)
             ELSE W1

\* lines 660-716.  payload: the words of the payload; user: what the Get of
\* the user record returns
RecvCalleeHidden(W, c, payload, user) ==
  LET calleeHidden == (payload = <<"true">>)
      W1 == Ev([W EXCEPT !.hub.IsCalleeHidden = calleeHidden], user)
  IN IF user = "err" THEN W1
     ELSE [W1 EXCEPT !.dbUserInt2 = IF calleeHidden THEN @ \cup {1}
                                                    ELSE @ \ {1}]

\* lines 718-744
RecvDialSoundsMuted(W, c, payload, user) ==
  LET dialSoundsMuted == (payload = <<"true">>)
      W1 == Ev(W, user)
  IN IF user = "err" THEN W1
     ELSE [W1 EXCEPT !.dbUserInt2 = IF dialSoundsMuted THEN @ \cup {4}
                                                       ELSE @ \ {4}]

\* lines 746-757: waitingCallerChanMap[callerAddrPort] <- 1 completes when an
\* HTTP request receives on that address's channel; with no key in the map the
\* channel is nil, and the send never completes: the handler does not return.
RecvPickupWaitingCaller(W, c, payload) ==
  IF payload \in W.waitingCallerChanMap
  THEN [W EXCEPT !.releasedCallers = @ \cup {payload},
                 !.waitingCallerChanMap = @ \ {payload}]
  ELSE Ev([W EXCEPT !.cl[c].pc = "blocked"], "blocked")

\* lines 859-864
RecvCheck(W, c) == Write(W, c, "confirm", None)

\* lines 955-984, the callee's report
CalleeConnected(W, c) ==
  LET caller == W.hub.CallerClient
      W0 == [W EXCEPT !.mediaInSession = TRUE]
  IN IF W.cl[c].isMediaConnectedToPeer
     THEN W0
     ELSE
       LET W1 == [W0 EXCEPT !.cl[c].isMediaConnectedToPeer = TRUE,
                            !.cl[caller].isMediaConnectedToPeer = TRUE]
       IN IF maxTalkSecsIfNoP2p > 0 /\ (~W1.hub.LocalP2p \/ ~W1.hub.RemoteP2p)
          THEN doBroadcast(setDeadline(W1, "talk"), "sessionDuration")
          ELSE W1

\* lines 952-1016
LogConnected(W, c, constate) ==
  LET callee == W.hub.CalleeClient
      caller == W.hub.CallerClient
  IN
  IF W.cl[c].isCallee
  THEN CalleeConnected(W, c)
  ELSE IF constate = "ConForce"
       THEN Write(W, callee, "callerConnect", None)
       ELSE
         LET W1 == IF disconCalleeOnPeerConnected
                   THEN Close(W, callee) ELSE W
         IN IF disconCallerOnPeerConnected
            THEN Close(W1, caller)
            ELSE W1

\* a log handler that marks only the reporting endpoint peer-connected
RecvLogReporterOnly(W, c, words) ==
  IF W.hub.CallerClient = None
  THEN StoreCallerIpInHubMap(W, None)
  ELSE IF W.hub.CalleeClient = None
  THEN W
  ELSE
    LET constate == IF Len(words) >= 2 THEN words[2] ELSE ""
    IN IF ~(Len(words) >= 2 /\ constate \in {"Incoming", "Connected", "ConForce"})
       THEN W
       ELSE
         LET W1 == [W EXCEPT !.cl[c].isConnectedToPeer = TRUE]
             W2 == W1
             modes == IF Len(words) >= 3 THEN words[3] ELSE <<>>
             W3 == [W2 EXCEPT
                      !.hub.LocalP2p = Len(modes) >= 2 /\ modes[1] = "p2p",
                      !.hub.RemoteP2p = Len(modes) >= 2 /\ modes[2] = "p2p"]
         IN IF constate \in {"Connected", "ConForce"}
            THEN LogConnected(W3, c, constate)
            ELSE W3

\* lines 866-1020.  words: the payload split at " ".
RecvLog(W, c, words) ==
  IF W.hub.CallerClient = None
  THEN StoreCallerIpInHubMap(W, None)
  ELSE IF W.hub.CalleeClient = None
  THEN W
  ELSE
    LET constate == IF Len(words) >= 2 THEN words[2] ELSE ""
    IN IF ~(Len(words) >= 2 /\ constate \in {"Incoming", "Connected", "ConForce"})
       THEN W
       ELSE
         LET W1 == [W EXCEPT !.cl[c].isConnectedToPeer = TRUE]
             W2 == IF ~W1.cl[c].isCallee
                   THEN [W1 EXCEPT !.cl[W1.hub.CalleeClient].isConnectedToPeer = TRUE]
                   ELSE W1
             modes == IF Len(words) >= 3 THEN words[3] ELSE <<>>
             W3 == [W2 EXCEPT
                      !.hub.LocalP2p = Len(modes) >= 2 /\ modes[1] = "p2p",
                      !.hub.RemoteP2p = Len(modes) >= 2 /\ modes[2] = "p2p"]
         IN IF constate \in {"Connected", "ConForce"}
            THEN LogConnected(W3, c, constate)
            ELSE W3

\* a forward that does not look at the payload's length
RecvForwardAnyPayload(W, c, cmd, payload) ==
  IF W.cl[c].isCallee
  THEN IF W.hub.CallerClient # None
       THEN WriteBody(W, W.hub.CallerClient, cmd, c, payload) ELSE W
  ELSE IF W.hub.CalleeClient # None
       THEN WriteBody(W, W.hub.CalleeClient, cmd, c, payload) ELSE W

\* lines 1046-1070
RecvForward(W, c, cmd, payload) ==
  IF Len(payload) > 0
  THEN IF W.cl[c].isCallee
       THEN IF W.hub.CallerClient # None
            THEN WriteBody(W, W.hub.CallerClient, cmd, c, payload) ELSE W
       ELSE IF W.hub.CalleeClient # None
            THEN WriteBody(W, W.hub.CalleeClient, cmd, c, payload) ELSE W
  ELSE W

\* a validation that accepts any frame with a "|", whatever its field count
FrameAcceptedAnyFields(tok) == Len(tok) >= 2

\* lines 372-397: the frame must hold a "|" and split into exactly two fields
FrameAccepted(tok) == Len(tok) >= 2 /\ Len(tok) = 2

receiveProcess(W, c, tok, user, oldClient) ==
  IF ~FrameAccepted(tok) THEN W
  ELSE
    LET cmd == tok[1]
        payload == tok[2]
    IN CASE cmd = "init" -> RecvInit(W, c, oldClient)
         [] cmd = "msg" -> RecvMsg(W, c)
         [] cmd = "missedcall" -> RecvMissedCall(W, c)
         [] cmd = "callerOffer" -> RecvCallerOffer(W, c, payload)
         [] cmd = "cancel" -> RecvCancel(W, c, user)
         [] cmd = "pickup" -> RecvPickup(W, c)
         [] cmd = "heartbeat" -> W
         [] cmd = "check" -> RecvCheck(W, c)
         [] cmd = "calleeHidden" -> RecvCalleeHidden(W, c, payload, user)
         [] cmd = "dialsoundsmuted" -> RecvDialSoundsMuted(W, c, payload, user)
         [] cmd = "pickupWaitingCaller" -> RecvPickupWaitingCaller(W, c, payload)
         [] cmd = "deleteMissedCall" -> RecvDeleteMissedCall(W, c, payload, user)
         [] cmd = "log" -> RecvLog(W, c, payload)
         [] OTHER -> RecvForward(W, c, cmd, payload)

\* The socket delivers frames once serve() has returned and until it closes.
\* The frame as the bytes on the wire: a sequence of one-character strings.
\* line 374
checkLen == 32

Min(a, b) == IF a < b THEN a ELSE b

\* bytes.Index(b, "|"): the 0-based index of the first "|", -1 when none
PipeIndex(b) ==
  IF \E i \in 1..Len(b) : b[i] = "|"
  THEN (CHOOSE i \in 1..Len(b) :
          b[i] = "|" /\ \A j \in 1..(i - 1) : b[j] # "|") - 1
  ELSE -1

\* strings.Split(b, "|")
RECURSIVE Split(_)
Split(b) ==
  LET i == PipeIndex(b)
  IN IF i < 0 THEN <<b>>
     ELSE <<SubSeq(b, 1, i)>> \o Split(SubSeq(b, i + 2, Len(b)))

\* the command word of a frame whose first field is not one of the known
\* commands
Text(chars) == "other"

\* lines 372-397 on the bytes
PipeInPrefix(message) ==
  PipeIndex(SubSeq(message, 1, Min(checkLen, Len(message)))) >= 0

receiveBytes(W, c, message, user, oldClient) ==
  IF ~PipeInPrefix(message) THEN W
  ELSE LET f == Split(message)
           tok == [i \in 1..Len(f) |-> IF i = 1 THEN Text(f[1]) ELSE f[i]]
       IN receiveProcess(W, c, tok, user, oldClient)

Receiving(e) == cl[e].st = "open" /\ cl[e].pc = "done"

\* n command bytes followed by a tail
Bytes(n, tail) == [i \in 1..n |-> "c"] \o tail

CmdLens == {1, checkLen - 1, checkLen}

Tails == { <<>>, <<"|">>, <<"|", "p">>, <<"|", "p", "|", "q">> }

ByteFrames == { Bytes(n, t) : n \in CmdLens, t \in Tails }

\* lines 195-217: OnMessage with a text frame, by its bytes
ReceiveBytes(e, message) ==
  /\ Receiving(e)
  /\ message \in ByteFrames
  /\ Commit(receiveBytes(World, e, message, "err", FALSE))
  /\ UNCHANGED <<watchdog, now>>

\* lines 195-217: OnMessage with a text frame, by the inputs the command reads
Receive(e, tok) ==
  /\ Receiving(e)
  /\ tok \in Frames \ {InitFrame, CancelFrame}
  /\ Commit(receiveProcess(World, e, tok, "err", FALSE))
  /\ UNCHANGED <<watchdog, now>>

ReceiveInit(e, oldClient) ==
  /\ Receiving(e)
  /\ Commit(receiveProcess(World, e, InitFrame, "err", oldClient))
  /\ UNCHANGED <<watchdog, now>>

ReceiveCancel(e, user) ==
  /\ Receiving(e)
  /\ Commit(receiveProcess(World, e, CancelFrame, user, FALSE))
  /\ UNCHANGED <<watchdog, now>>

DeleteFrame(key) == <<"deleteMissedCall", key>>

ReceiveDelete(e, key, user) ==
  /\ Receiving(e)
  /\ Commit(receiveProcess(World, e, DeleteFrame(key), user, FALSE))
  /\ UNCHANGED <<watchdog, now>>

\* the commands on the callee's profile and on its waiting callers
ProfileFrames ==
  { <<"calleeHidden", <<"true">>>>, <<"calleeHidden", <<"false">>>>,
    <<"dialsoundsmuted", <<"true">>>>, <<"dialsoundsmuted", <<"false">>>>,
    <<"pickupWaitingCaller", <<"addr">>>> }

\* the callerAddrPort values of the frames
CallerAddrPorts == { f[2] : f \in { g \in ProfileFrames : g[1] = "pickupWaitingCaller" } }

\* the HTTP front-end registers a channel for a waiting caller and blocks
\* receiving on it
HttpWait(addr) ==
  /\ addr \notin waitingCallerChanMap
  /\ waitingCallerChanMap' = waitingCallerChanMap \cup {addr}
  /\ UNCHANGED <<hub, cl, watchdog, now, missedCalls, waitingCallers,
                 offersFwd, pickupInSession, mediaInSession, wsClientMap,
                 dbUserInt2, releasedCallers, proc, lk, ka>>

\* the waiting caller's HTTP request ends without a pickup
HttpLeave(addr) ==
  /\ addr \in waitingCallerChanMap
  /\ waitingCallerChanMap' = waitingCallerChanMap \ {addr}
  /\ UNCHANGED <<hub, cl, watchdog, now, missedCalls, waitingCallers,
                 offersFwd, pickupInSession, mediaInSession, wsClientMap,
                 dbUserInt2, releasedCallers, proc, lk, ka>>

ReceiveProfile(e, tok, user) ==
  /\ Receiving(e)
  /\ tok \in ProfileFrames
  /\ Commit(receiveProcess(World, e, tok, user, FALSE))
  /\ UNCHANGED <<watchdog, now>>

\* what the expiry of the hub's deadline timer runs
timerExpiry(W, user) ==
  LET W0 == Ev([W EXCEPT !.hub.deadline = "none"], "expired")
  IN IF W.hub.CalleeClient # None
     THEN peerConHasEnded(W0, W.hub.CalleeClient, user)
     ELSE W0

\* the hub's deadline timer fires
DeadlineExpire(user) ==
  /\ hub.deadline # "none"
  /\ Commit(timerExpiry(World, user))
  /\ UNCHANGED <<watchdog, now>>

Tick ==
  /\ now < StartTime + MaxNow
  /\ now' = now + 1
  /\ UNCHANGED <<hub, cl, watchdog, missedCalls, waitingCallers,
                 offersFwd, pickupInSession, mediaInSession, wsClientMap,
                 dbUserInt2, releasedCallers, waitingCallerChanMap, proc, lk, ka>>

\* ------------------------------------------------- main(): stats, shutdown
\* readIniEntry(statsIni, keyword): the text of the key and whether it exists
readIniEntry(file, key) == file.entries[key]

\* strconv.ParseInt(str, 10, IntBits): an optional sign, then digits only;
\* a syntax error or a value out of range sets err
ParseInt(str) ==
  LET signed == str # <<>> /\ str[1] \in {"-", "+"}
      digits == IF signed THEN Tail(str) ELSE str
      syntax == digits = <<>> \/ \E i \in 1..Len(digits) : DigitVal(digits[i]) < 0
      val == IF signed /\ str[1] = "-" THEN 0 - Decimal(digits) ELSE Decimal(digits)
  IN IF syntax \/ val > MaxInt \/ val < 0 - MaxInt - 1
     THEN [err |-> TRUE, val |-> 0]
     ELSE [err |-> FALSE, val |-> val]

\* one block of readStatsFile: the key is looked up; an empty value zeroes the
\* counter named zeroed, a number is stored into the counter named stored, a
\* missing key or a parse error changes nothing
ReadStatsEntry(c, file, key, zeroed, stored) ==
  LET e == readIniEntry(file, key) IN
  IF ~e.present THEN c
  ELSE IF e.str = <<>> THEN [c EXCEPT ![zeroed] = 0]
  ELSE IF ParseInt(e.str).err THEN c
  ELSE [c EXCEPT ![stored] = ParseInt(e.str).val]

\* src/main.go lines 595-651
readStatsFile(c, file) ==
  IF ~file.exists THEN c
  ELSE
    LET c1 == ReadStatsEntry(c, file, "numberOfCallsToday",
                             "numberOfCallsToday", "numberOfCallsToday")
        c2 == ReadStatsEntry(c1, file, "numberOfCallSecondsToday",
                             "numberOfCallsToday", "numberOfCallSecondsToday")
    IN ReadStatsEntry(c2, file, "lastCurrentDayOfMonth",
                      "lastCurrentDayOfMonth", "lastCurrentDayOfMonth")

DigitChar(d) ==
  CASE d = 0 -> "0" [] d = 1 -> "1" [] d = 2 -> "2" [] d = 3 -> "3"
    [] d = 4 -> "4" [] d = 5 -> "5" [] d = 6 -> "6" [] d = 7 -> "7"
    [] d = 8 -> "8" [] d = 9 -> "9"

RECURSIVE FormatNat(_)
FormatNat(n) ==
  IF n < 10 THEN <<DigitChar(n)>>
  ELSE FormatNat(n \div 10) \o <<DigitChar(n % 10)>>

\* fmt.Sprintf("%d", n)
FormatInt(n) == IF n < 0 THEN <<"-">> \o FormatNat(0 - n) ELSE FormatNat(n)

\* src/main.go lines 653-692: the file is removed and written anew with the
\* three counters, one "key = %d" line each
writeStatsFile(c) ==
  [exists |-> TRUE, entries |-> [k \in StatKeys |-> Entry(FormatInt(c[k]))]]

\* src/main.go line 278, reached once the five stores are open
ReadStats ==
  /\ proc.pc = "start"
  /\ proc' = [proc EXCEPT !.pc = "serving",
                          !.counters = readStatsFile(@, proc.statsFile)]
  /\ UNCHANGED <<hub, cl, watchdog, now, missedCalls, waitingCallers,
                 offersFwd, pickupInSession, mediaInSession, wsClientMap,
                 dbUserInt2, releasedCallers, waitingCallerChanMap, lk, ka>>

\* src/main.go lines 383-384: SIGINT or SIGTERM is delivered on sigc
Signal ==
  /\ proc.pc = "serving"
  /\ proc' = [proc EXCEPT !.pc = "signalled", !.signalAt = ka.clock]
  /\ UNCHANGED <<hub, cl, watchdog, now, missedCalls, waitingCallers,
                 offersFwd, pickupInSession, mediaInSession, wsClientMap,
                 dbUserInt2, releasedCallers, waitingCallerChanMap, lk, ka>>

\* src/main.go line 390
SetFlag ==
  /\ proc.pc = "signalled"
  /\ proc' = [proc EXCEPT !.pc = "flagged", !.shutdownStarted = TRUE,
                          !.flagAt = ka.clock, !.log = Append(@, "flag")]
  /\ UNCHANGED <<hub, cl, watchdog, now, missedCalls, waitingCallers,
                 offersFwd, pickupInSession, mediaInSession, wsClientMap,
                 dbUserInt2, releasedCallers, waitingCallerChanMap, lk, ka>>

\* src/main.go lines 392-395: writeStatsFile(), then time.Sleep begins
WriteStats ==
  /\ proc.pc = "flagged"
  /\ proc' = [proc EXCEPT !.pc = "sleeping",
                          !.statsFile = writeStatsFile(proc.counters),
                          !.statsAt = ka.clock, !.log = Append(@, "stats")]
  /\ UNCHANGED <<hub, cl, watchdog, now, missedCalls, waitingCallers,
                 offersFwd, pickupInSession, mediaInSession, wsClientMap,
                 dbUserInt2, releasedCallers, waitingCallerChanMap, lk, ka>>

\* src/main.go lines 398-426: dbContacts, dbHashedPw, dbNotif, dbCalls, db
CloseOrder == <<"contacts", "hashedpw", "notif", "calls", "main">>

StoresClosed(p) == Len(p.log) - 2

\* src/main.go lines 395-426: the sleep is over; one Close() call, its error
\* only printed
CloseStore ==
  /\ proc.pc \in {"sleeping", "closing"}
  /\ ka.clock >= proc.statsAt + graceSecs
  /\ StoresClosed(proc) < Len(CloseOrder)
  /\ proc' = [proc EXCEPT !.pc = "closing",
                          !.closeAt = IF @ < 0 THEN ka.clock ELSE @,
                          !.log = Append(@, CloseOrder[StoresClosed(proc) + 1])]
  /\ UNCHANGED <<hub, cl, watchdog, now, missedCalls, waitingCallers,
                 offersFwd, pickupInSession, mediaInSession, wsClientMap,
                 dbUserInt2, releasedCallers, waitingCallerChanMap, lk, ka>>

\* src/main.go line 434: os.Exit(0)
Exit ==
  /\ proc.pc = "closing"
  /\ StoresClosed(proc) = Len(CloseOrder)
  /\ proc' = [proc EXCEPT !.pc = "exited", !.exitCode = 0,
                          !.log = Append(@, "exit")]
  /\ UNCHANGED <<hub, cl, watchdog, now, missedCalls, waitingCallers,
                 offersFwd, pickupInSession, mediaInSession, wsClientMap,
                 dbUserInt2, releasedCallers, waitingCallerChanMap, lk, ka>>

\* the server is started again over the stats file the last process left
Restart ==
  /\ proc.pc \in {"sleeping", "closing", "exited"}
  /\ proc' = [StartProc EXCEPT !.statsFile = proc.statsFile]
  /\ UNCHANGED <<hub, cl, watchdog, now, missedCalls, waitingCallers,
                 offersFwd, pickupInSession, mediaInSession, wsClientMap,
                 dbUserInt2, releasedCallers, waitingCallerChanMap, lk, ka>>

\* ---------------------------------------------------- Hub.HubMutex protocol
\* One operation of a handler: taking or releasing the mutex, reading or
\* writing a non-atomic hub field, a socket write, a socket close or a sleep;
\* line is the line of the operation in src/unnamed/part_000.
Lock(line) == [op |-> "Lock", arg |-> "", line |-> line]
Unlock(line) == [op |-> "Unlock", arg |-> "", line |-> line]
RLock(line) == [op |-> "RLock", arg |-> "", line |-> line]
RUnlock(line) == [op |-> "RUnlock", arg |-> "", line |-> line]
Rd(field, line) == [op |-> "read", arg |-> field, line |-> line]
Wr(field, line) == [op |-> "write", arg |-> field, line |-> line]
Io(kind, line) == [op |-> "io", arg |-> kind, line |-> line]

PathNames ==
  { "attachCallee", "attachCaller", "watchdog", "init", "callerOffer",
    "cancel", "calleeHidden", "deleteMissedCall", "pickup",
    "logCalleeConnected", "logCallerConnected", "forward", "teardown" }

\* The operations of each handler in program order, on its longest branch.
Path(name) ==
  CASE name = "attachCallee" ->
         << Rd("CalleeClient", 271), Lock(280), Wr("IsCalleeHidden", 281),
            Wr("CalleeClient", 284), Wr("CallerClient", 285),
            Wr("ServiceStartTime", 286), Wr("ConnectedToPeerSecs", 287),
            Unlock(288), Wr("ServiceStartTime", 293),
            Wr("ConnectedToPeerSecs", 294), Wr("CallDurationSecs", 296) >>
    [] name = "attachCaller" ->
         << Rd("CalleeClient", 271), Rd("CallerClient", 299), Lock(312),
            Wr("CallDurationSecs", 313), Wr("CallerClient", 314),
            Unlock(315) >>
    [] name = "watchdog" ->
         << Io("Sleep", 321), RLock(323), Rd("CalleeClient", 324),
            Rd("CallerClient", 326), Io("Write", 339), Io("Write", 340),
            RUnlock(341), Lock(343), Wr("CallerClient", 344), Unlock(345) >>
    [] name = "init" ->
         << Lock(418), Wr("CallerClient", 419), Unlock(420),
            Io("Write", 441) >>
    [] name = "callerOffer" ->
         << RLock(556), Rd("CalleeClient", 557), Rd("CallerClient", 563),
            Io("Write", 575), Io("Write", 584), Io("Write", 591),
            Io("Write", 595), RUnlock(599) >>
    [] name = "cancel" ->
         << RLock(630), Rd("CalleeClient", 631), RUnlock(632),
            Io("Close", 635) >>
    [] name = "calleeHidden" ->
         << Lock(662), Wr("IsCalleeHidden", 664), Unlock(670) >>
    [] name = "deleteMissedCall" ->
         << RLock(804), Rd("CalleeClient", 805), Io("Write", 806),
            RUnlock(808) >>
    [] name = "pickup" ->
         << Lock(833), Wr("lastCallStartTime", 834), Unlock(835),
            RLock(840), Rd("CallerClient", 841), Io("Write", 846),
            RUnlock(849) >>
    [] name = "logCalleeConnected" ->
         << RLock(877), Rd("CallerClient", 878), Rd("CalleeClient", 889),
            Wr("LocalP2p", 932), Wr("RemoteP2p", 933), Wr("LocalP2p", 940),
            Wr("RemoteP2p", 943), RUnlock(976), RLock(978),
            Io("Write", 981), RUnlock(1018) >>
    [] name = "logCallerConnected" ->
         << RLock(877), Rd("CallerClient", 878), Rd("CalleeClient", 889),
            Wr("LocalP2p", 932), Wr("RemoteP2p", 933), Wr("LocalP2p", 940),
            Wr("RemoteP2p", 943), Io("Sleep", 998), Rd("CallerClient", 1008),
            Io("Close", 1011), RUnlock(1018) >>
    [] name = "forward" ->
         << RLock(1056), Rd("CallerClient", 1058), Io("Write", 1059),
            RUnlock(1066) >>
    [] name = "teardown" ->
         << Rd("lastCallStartTime", 1106), Wr("lastCallStartTime", 1108),
            RLock(1143), Rd("CallerClient", 1144), RUnlock(1148),
            RLock(1163), Rd("CalleeClient", 1164), Rd("CallerClient", 1167),
            RUnlock(1177), Lock(1217), Wr("CallerClient", 1218),
            Unlock(1219) >>

Idle(t) == lk.at[t].path = "idle"

\* the operation task t executes next
NextOp(t) == Path(lk.at[t].path)[lk.at[t].idx]

Holds(t) == t \in lk.readers \/ lk.writer = t

\* sync.RWMutex: Lock waits for every holder, RLock for a writer
CanRun(t, o) ==
  CASE o.op = "Lock" -> lk.readers = {} /\ lk.writer = None
    [] o.op = "RLock" -> lk.writer = None
    [] OTHER -> TRUE

\* a message, a close event or a timer starts handler p in task t
TaskStart(t, p) ==
  /\ Idle(t)
  /\ lk' = [lk EXCEPT !.at[t] = [path |-> p, idx |-> 1]]
  /\ UNCHANGED <<hub, cl, watchdog, now, missedCalls, waitingCallers,
                 offersFwd, pickupInSession, mediaInSession, wsClientMap,
                 dbUserInt2, releasedCallers, waitingCallerChanMap, proc, ka>>

\* task t executes its next operation
TaskStep(t) ==
  /\ ~Idle(t)
  /\ CanRun(t, NextOp(t))
  /\ LET o == NextOp(t)
         last == lk.at[t].idx = Len(Path(lk.at[t].path))
     IN lk' = [lk EXCEPT
                 !.readers = CASE o.op = "RLock" -> @ \cup {t}
                               [] o.op = "RUnlock" -> @ \ {t}
                               [] OTHER -> @,
                 !.writer = CASE o.op = "Lock" -> t
                              [] o.op = "Unlock" -> None
                              [] OTHER -> @,
                 !.at[t] = IF last THEN [path |-> "idle", idx |-> 1]
                           ELSE [@ EXCEPT !.idx = @ + 1]]
  /\ UNCHANGED <<hub, cl, watchdog, now, missedCalls, waitingCallers,
                 offersFwd, pickupInSession, mediaInSession, wsClientMap,
                 dbUserInt2, releasedCallers, waitingCallerChanMap, proc, ka>>

\* One callee and one caller on the hub, every frame, the clock.
Next ==
  \/ \E e \in Paired : ServeUpgrade(e)
  \/ \E e \in Paired : ServeCallee(e)
  \/ \E e \in Paired : ServeCaller(e)
  \/ \E e \in Paired : WatchdogFire(e)
  \/ \E e \in Paired, user \in UserReads : OnClose(e, user)
  \/ \E user \in UserReads : DeadlineExpire(user)
  \/ \E e \in Paired, f \in Frames : Receive(e, f)
  \/ \E e \in Paired, oldClient \in BOOLEAN : ReceiveInit(e, oldClient)
  \/ \E e \in Paired, user \in UserReads : ReceiveCancel(e, user)
  \/ Tick

Spec == InitHub /\ [][Next]_vars

\* Three upgrades racing for the two slots; the frames that reach the peer or
\* the hub from an endpoint, at one instant.
AdmitFrames ==
  { <<"callerOffer", <<"sdp">>>>, <<"candidate", <<"x">>>>,
    LogFrame("Incoming", "p2p", "p2p") }

NextAdmit ==
  \/ \E e \in Endpoints : ServeUpgrade(e)
  \/ \E e \in Endpoints : ServeCallee(e)
  \/ \E e \in Endpoints : ServeCaller(e)
  \/ \E e \in Endpoints : WatchdogFire(e)
  \/ \E e \in Endpoints : OnClose(e, "nostore")
  \/ DeadlineExpire("nostore")
  \/ \E e \in Endpoints, f \in AdmitFrames : Receive(e, f)
  \/ \E e \in Endpoints : ReceiveCancel(e, "nostore")
  \/ \E e \in Endpoints, m \in ByteFrames : ReceiveBytes(e, m)

SpecAdmit == InitHub /\ [][NextAdmit]_vars

\* The keep-alive of one registered socket, against the scanner.
InitKa ==
  /\ hub = NewHub
  /\ cl = [e \in Endpoints |-> NewClient]
  /\ watchdog = {}
  /\ now = StartTime
  /\ missedCalls = <<>>
  /\ waitingCallers = <<>>
  /\ offersFwd = [e \in Endpoints |-> 0]
  /\ pickupInSession = FALSE
  /\ mediaInSession = FALSE
  /\ dbUserInt2 = {}
  /\ releasedCallers = {}
  /\ waitingCallerChanMap = {}
  /\ proc = NewProc
  /\ lk = NewLock
  /\ wsClientMap = [t \in Tickets |-> FALSE]
  /\ \E phase \in 0..(scanPeriod - 1) : ka = NewKa(phase)

NextKa == KaInbound \/ KaScan \/ KaReadTimeout \/ KaTick

SpecKa == InitKa /\ [][NextKa]_vars

\* The same socket with inbound events at any time.
NextKaActive == KaInboundAnyTime \/ KaScan \/ KaReadTimeout \/ KaTick

SpecKaActive == InitKa /\ [][NextKaActive]_vars

\* The callee attaches and sends init with a stored waitingCallers list.
WaitingAges == {waitingCallerMaxAge + 1, waitingCallerMaxAge, 1}

StoredLists ==
  UNION { { [i \in 1..n |-> [AddrPort |-> i, CallTime |-> StartTime - ages[i]]] :
              ages \in [1..n -> WaitingAges] } : n \in 0..MaxWaiting }

InitPrune ==
  /\ hub = NewHub
  /\ cl = [e \in Endpoints |-> NewClient]
  /\ watchdog = {}
  /\ now = StartTime
  /\ missedCalls = <<>>
  /\ waitingCallers \in StoredLists
  /\ offersFwd = [e \in Endpoints |-> 0]
  /\ pickupInSession = FALSE
  /\ mediaInSession = FALSE
  /\ dbUserInt2 = {}
  /\ releasedCallers = {}
  /\ waitingCallerChanMap = {}
  /\ proc = NewProc
  /\ lk = NewLock
  /\ wsClientMap = [t \in Tickets |-> FALSE]
  /\ ka = NewKa(0)

NextPrune ==
  \/ ServeUpgrade(1)
  \/ ServeCallee(1)
  \/ \E oldClient \in BOOLEAN : ReceiveInit(1, oldClient)
  \/ Tick

SpecPrune == InitPrune /\ [][NextPrune]_vars

\* The callee attaches and deletes from a stored missedCalls list.
StoredCalls ==
  { [AddrPort |-> a, CallTime |-> t, msg |-> FALSE] :
      a \in Endpoints \ {1}, t \in {StartTime - 1, StartTime} }

StoredMissed ==
  UNION { [1..n -> StoredCalls] : n \in 0..MaxStoredMissed }

MissedKeys == { MissedCallId(r) : r \in StoredCalls }

InitMissed ==
  /\ hub = NewHub
  /\ cl = [e \in Endpoints |-> NewClient]
  /\ watchdog = {}
  /\ now = StartTime
  /\ missedCalls \in StoredMissed
  /\ waitingCallers = <<>>
  /\ offersFwd = [e \in Endpoints |-> 0]
  /\ pickupInSession = FALSE
  /\ mediaInSession = FALSE
  /\ dbUserInt2 = {}
  /\ releasedCallers = {}
  /\ waitingCallerChanMap = {}
  /\ proc = NewProc
  /\ lk = NewLock
  /\ wsClientMap = [t \in Tickets |-> FALSE]
  /\ ka = NewKa(0)

NextMissed ==
  \/ ServeUpgrade(1)
  \/ ServeCallee(1)
  \/ \E key \in MissedKeys, user \in UserReads : ReceiveDelete(1, key, user)

SpecMissed == InitMissed /\ [][NextMissed]_vars

\* ================================================================ claims

\* C1: in every reachable state, if hub.CallerClient is set then
\* hub.CalleeClient is set.
C1_CallerImpliesCallee == hub.CallerClient # None => hub.CalleeClient # None

\* C2: no step replaces an admitted caller: when hub.CallerClient is set before
\* and after a step, it references the same endpoint.
C2_AdmittedCallerKept ==
  [][(hub.CallerClient # None /\ hub.CallerClient' # None)
       => hub.CallerClient' = hub.CallerClient]_vars

\* C3: while both slots are filled, no frame of an endpoint that was refused
\* admission changes a hub field or a flag of another endpoint, and no write
\* it causes goes to the callee or the admitted caller.
C3_RefusedIsInert ==
  \A e \in Endpoints :
    (/\ cl[e].role = "refused"
     /\ Receiving(e)
     /\ hub.CalleeClient # None
     /\ hub.CallerClient # None)
    => \A f \in Frames, user \in UserReads, oldClient \in BOOLEAN :
         LET W == receiveProcess(World, e, f, user, oldClient)
         IN /\ W.hub = hub
            /\ \A d \in Endpoints \ {e} : W.cl[d] = cl[d]
            /\ \A i \in 1..Len(W.out) :
                  W.out[i].to \notin {hub.CalleeClient, hub.CallerClient}

\* C4: for every endpoint, isMediaConnectedToPeer implies isConnectedToPeer.
C4_MediaImpliesPeer ==
  \A e \in Endpoints : cl[e].isMediaConnectedToPeer => cl[e].isConnectedToPeer

\* C6: an init frame from a callee endpoint whose calleeInitReceived is set
\* leaves the hub, every endpoint and both stored lists unchanged and writes
\* nothing.
C6_SecondInitNoOp ==
  \A e \in Endpoints :
    (Receiving(e) /\ cl[e].isCallee /\ cl[e].calleeInitReceived)
    => \A oldClient \in BOOLEAN :
         LET W == receiveProcess(World, e, InitFrame, "err", oldClient)
         IN /\ W.hub = hub
            /\ W.cl = cl
            /\ W.missedCalls = missedCalls
            /\ W.waitingCallers = waitingCallers
            /\ W.out = <<>>

\* the callee already sent init, a caller is attached: a first init would
\* clear the caller slot and write sessionId
C6_Witness ==
  \E e \in Endpoints :
    /\ Receiving(e) /\ cl[e].isCallee /\ cl[e].calleeInitReceived
    /\ hub.CalleeClient = e
    /\ hub.CallerClient # None
    /\ cl[e].pickupSent

OfferFrame == <<"callerOffer", <<"sdp">>>>

\* C7: no endpoint has more than one callerOffer written to the callee, and
\* once one was written, a further callerOffer of that endpoint writes nothing,
\* arms no deadline and changes nothing.
C7_OneOfferForwarded ==
  \A e \in Endpoints :
    /\ offersFwd[e] <= 1
    /\ (offersFwd[e] = 1 /\ Receiving(e))
       => LET W == receiveProcess(World, e, OfferFrame, "err", FALSE)
          IN /\ W.out = <<>>
             /\ "arm" \notin W.ev
             /\ W.hub = hub
             /\ W.cl = cl

\* the caller's offer was forwarded, the ring deadline has since been disarmed
\* and both slots are still filled: an unlatched offer would be written again
C7_Witness ==
  \E e \in Endpoints :
    /\ offersFwd[e] = 1 /\ Receiving(e)
    /\ hub.CallerClient = e
    /\ hub.CalleeClient # None /\ cl[hub.CalleeClient].isOnline
    /\ hub.deadline = "none"

\* C8: whenever peerConHasEnded runs on the callee endpoint (a cancel or a
\* socket close while peer-connected, or the expiry of the armed deadline), it
\* appends exactly one record to missedCalls if hub.CallDurationSecs is 0 and
\* the user record has StoreMissedCalls set, and none otherwise.
C8_MissedCallLaw ==
  LET c == hub.CalleeClient IN
  (c # None /\ (hub.deadline # "none" \/ cl[c].isConnectedToPeer))
  => \A user \in {"store", "nostore"} :
       LET W == peerConHasEnded(World, c, user)
       IN IF W.hub.CallDurationSecs = 0 /\ user = "store"
          THEN /\ Len(W.missedCalls) = Len(missedCalls) + 1
               /\ SubSeq(W.missedCalls, 1, Len(missedCalls)) = missedCalls
          ELSE W.missedCalls = missedCalls

\* C9: a teardown of the session of the admitted caller leaves
\* hub.CallDurationSecs > 0 exactly if a pickup was accepted in that session.
C9_DurationIffPickup ==
  LET c == hub.CalleeClient IN
  (c # None /\ hub.CallerClient # None /\ cl[c].isConnectedToPeer)
  => \A user \in UserReads :
       LET W == peerConHasEnded(World, c, user)
       IN (W.hub.CallDurationSecs > 0) <=> pickupInSession

Fresh(w) == ~Outdated(w, now)

\* C10: a first init of the callee leaves no outdated entry in the stored
\* waitingCallers list nor in the list pushed to the callee, and keeps the
\* entries that are not outdated, in their order, in both.
C10_InitPrunesOutdated ==
  \A e \in Endpoints :
    (Receiving(e) /\ cl[e].isCallee /\ ~cl[e].calleeInitReceived)
    => LET W == receiveProcess(World, e, InitFrame, "err", FALSE)
           kept == SelectSeq(waitingCallers, Fresh)
       IN /\ W.waitingCallers = kept
          /\ \A i \in 1..Len(W.out) :
                W.out[i].msg = "waitingCallers" => W.out[i].body = kept

\* C11: a deleteMissedCall of the callee, with the user record read and
\* StoreMissedCalls set, leaves no record with the payload's id in the stored
\* list, keeps the others in order and sends the new list to the callee; when
\* no record matches, the list is unchanged and nothing is sent.
C11_DeleteRemovesKey ==
  \A e \in Endpoints, key \in MissedKeys :
    (Receiving(e) /\ cl[e].isCallee /\ hub.CalleeClient = e)
    => LET W == receiveProcess(World, e, DeleteFrame(key), "store", FALSE)
           Other(r) == MissedCallId(r) # key
           kept == SelectSeq(missedCalls, Other)
       IN /\ W.missedCalls = kept
          /\ W.out = IF kept = missedCalls
                     THEN <<>>
                     ELSE <<[to |-> e, msg |-> "missedCalls", from |-> None,
                             body |-> kept]>>

PickupFrame == <<"pickup", <<"a">>>>

\* C12: a pickup frame sets a hub field, writes, latches pickupSent or
\* disarms the deadline only if its sender is the callee endpoint and
\* peer-connected; from an endpoint that is not the callee it changes
\* nothing and writes nothing.
C12_PickupOnlyFromCallee ==
  \A e \in Endpoints :
    Receiving(e)
    => LET W == receiveProcess(World, e, PickupFrame, "err", FALSE)
           effect == W.hub # hub \/ W.cl # cl \/ W.out # <<>> \/ W.ev # {}
       IN effect => (cl[e].isCallee /\ cl[e].isConnectedToPeer)

\* Three upgrades with any wsid, over any pending-attach map that logins and
\* the cleanup sweep can have left.
PendingMaps ==
  UNION { [S -> BOOLEAN] : S \in SUBSET Tickets }

InitTicket ==
  /\ ka = NewKa(0)
  /\ hub = NewHub
  /\ cl = [e \in Endpoints |-> NewClient]
  /\ watchdog = {}
  /\ now = StartTime
  /\ missedCalls = <<>>
  /\ waitingCallers = <<>>
  /\ offersFwd = [e \in Endpoints |-> 0]
  /\ pickupInSession = FALSE
  /\ mediaInSession = FALSE
  /\ dbUserInt2 = {}
  /\ releasedCallers = {}
  /\ waitingCallerChanMap = {}
  /\ proc = NewProc
  /\ lk = NewLock
  /\ wsClientMap \in PendingMaps

NextTicket ==
  \/ \E e \in Endpoints : ServeUpgrade(e)
  \/ \E e \in Endpoints : ServeCallee(e)
  \/ \E e \in Endpoints : ServeCaller(e)
  \/ \E e \in Endpoints : WatchdogFire(e)
  \/ \E e \in Endpoints : OnClose(e, "nostore")

SpecTicket == InitTicket /\ [][NextTicket]_vars

\* Three upgrades racing for the two slots, the connection reports of the
\* admitted endpoints and the ends of a session.
SessionFrames ==
  { LogFrame("Connected", "p2p", "p2p"), LogFrame("Connected", "relay", "p2p"),
    LogFrame("ConForce", "relay", "p2p") }

NextSession ==
  \/ \E e \in Endpoints : ServeUpgrade(e)
  \/ \E e \in Endpoints : ServeCallee(e)
  \/ \E e \in Endpoints : ServeCaller(e)
  \/ \E e \in Endpoints : OnClose(e, "nostore")
  \/ DeadlineExpire("nostore")
  \/ \E e \in Endpoints, f \in SessionFrames : Receive(e, f)
  \/ \E e \in Endpoints : ReceiveCancel(e, "nostore")

SpecSession == InitHub /\ [][NextSession]_vars

\* One callee and one caller; either sends the commands on the callee's
\* profile.
NextRole ==
  \/ \E e \in Paired : ServeUpgrade(e)
  \/ \E e \in Paired : ServeCallee(e)
  \/ \E e \in Paired : ServeCaller(e)
  \/ \E e \in Paired : OnClose(e, "nostore")
  \/ \E e \in Paired, f \in ProfileFrames, user \in {"err", "nostore"} :
       ReceiveProfile(e, f, user)
  \/ \E addr \in CallerAddrPorts : HttpWait(addr)
  \/ \E addr \in CallerAddrPorts : HttpLeave(addr)

SpecRole == InitHub /\ [][NextRole]_vars

\* main() from the signal to os.Exit, with the keep-alive scanner running.
NextShutdown ==
  \/ KaInbound \/ KaScan \/ KaReadTimeout \/ KaTick
  \/ Signal \/ SetFlag \/ WriteStats \/ CloseStore \/ Exit

SpecShutdown == InitKa /\ [][NextShutdown]_vars

\* The stats file found at startup: any of the three keys missing, empty, a
\* number, a negative number, not a number, out of range.
StatsValues ==
  { NoEntry, Entry(<<>>), Entry(<<"7">>), Entry(<<"-", "3">>),
    Entry(<<"x">>), Entry(<<"1", "6">>) }

StatsFiles ==
  {NoStatsFile} \cup
  { [exists |-> TRUE, entries |-> f] : f \in [StatKeys -> StatsValues] }

InitStats ==
  /\ hub = NewHub
  /\ cl = [e \in Endpoints |-> NewClient]
  /\ watchdog = {}
  /\ now = StartTime
  /\ missedCalls = <<>>
  /\ waitingCallers = <<>>
  /\ offersFwd = [e \in Endpoints |-> 0]
  /\ pickupInSession = FALSE
  /\ mediaInSession = FALSE
  /\ dbUserInt2 = {}
  /\ releasedCallers = {}
  /\ waitingCallerChanMap = {}
  /\ lk = NewLock
  /\ wsClientMap = [t \in Tickets |-> FALSE]
  /\ ka = NewKa(0)
  /\ \E file \in StatsFiles : proc = [StartProc EXCEPT !.statsFile = file]

NextStats == ReadStats \/ Signal \/ SetFlag \/ WriteStats \/ Restart

SpecStats == InitStats /\ [][NextStats]_vars

\* Two tasks of one hub, each running any handler, under Hub.HubMutex.
NextLock ==
  \/ \E t \in Tasks, p \in PathNames : TaskStart(t, p)
  \/ \E t \in Tasks : TaskStep(t)

SpecLock == InitHub /\ [][NextLock]_vars

\* The position (1-based) of the only "|" of a frame, 0 when the frame has
\* none or several.
OnlyPipe(m) ==
  LET P == {i \in 1..Len(m) : m[i] = "|"}
  IN IF Cardinality(P) = 1 THEN CHOOSE i \in P : TRUE ELSE 0

FirstPipe(m) ==
  LET P == {i \in 1..Len(m) : m[i] = "|"}
  IN IF P = {} THEN 0 ELSE CHOOSE i \in P : \A j \in P : i <= j

\* the write that forwards the frame of e, cut at position p, to its peer
Forwarded(e, m, p) ==
  LET peer == IF cl[e].isCallee THEN hub.CallerClient ELSE hub.CalleeClient
      payload == SubSeq(m, p + 1, Len(m))
  IN IF Len(payload) > 0 /\ peer # None /\ cl[peer].isOnline
     THEN <<[to |-> peer, msg |-> "other", from |-> e, body |-> payload]>>
     ELSE <<>>

OnlineTargets(W) == \A i \in 1..Len(W.out) : W.cl[W.out[i].to].isOnline

\* C14: Write on an endpoint whose isOnline is false returns the
\* write-not-connected error and sends nothing, Write on an online endpoint
\* sends the given message as one frame and returns no error; so no handler
\* (frame, close, deadline expiry, watchdog) ever sends a TEXT frame to an
\* endpoint whose close handler has set isOnline to false.
C14_NoWriteWhenOffline ==
  /\ \A t \in Endpoints :
        cl[t].st # "new"
        => LET W == WriteBody(World, t, "m", None, <<"b">>)
           IN IF cl[t].isOnline
              THEN /\ WriteErr(World, t) = "nil"
                   /\ W.out = <<[to |-> t, msg |-> "m", from |-> None,
                                 body |-> <<"b">>]>>
              ELSE /\ WriteErr(World, t) = "ErrWriteNotConnected"
                   /\ W.out = <<>>
  /\ \A e \in Endpoints :
        /\ Receiving(e)
           => \A f \in Frames, u \in {"store", "err"} :
                OnlineTargets(receiveProcess(World, e, f, u, FALSE))
        /\ (cl[e].st \in {"open", "closing"} /\ cl[e].pc = "done")
           => OnlineTargets(CloseRun(e, "store"))
  /\ hub.CalleeClient # None
     => OnlineTargets(peerConHasEnded(World, hub.CalleeClient, "store"))
  /\ OnlineTargets(noPeerConCheck(World))

\* a callee forwards a frame to the caller of the hub, whose socket has
\* closed: nothing is sent
C14_Witness ==
  /\ hub.CalleeClient # None /\ hub.CallerClient # None
  /\ Receiving(hub.CalleeClient)
  /\ ~cl[hub.CallerClient].isOnline
  /\ cl[hub.CallerClient].st = "closed"
  /\ receiveProcess(World, hub.CalleeClient, <<"candidate", <<"x">>>>, "err",
                    FALSE).out = <<>>

\* the wsid names no pending ticket: the argument is missing or empty, is not
\* a decimal numeral, is zero, is out of range, or is not a key of the map
BadWsid(q) ==
  \/ ~q.present
  \/ q.str = <<>>
  \/ \E i \in 1..Len(q.str) : q.str[i] \notin {"0", "1", "2", "3", "4", "5", "6", "7", "8", "9"}
  \/ Decimal(q.str) = 0
  \/ Decimal(q.str) > MaxUint
  \/ Decimal(q.str) \notin DOMAIN wsClientMap

C16_TicketSingleUse ==
  \A e \in Endpoints, d \in Endpoints, q \in Queries :
    (cl[e].st = "new" /\ cl[d].st = "new" /\ e # d /\ TicketAccepted(World, q))
    => LET W1 == serveUpgrade(World, e, q)
           W2 == serveUpgrade(W1, d, q)
       IN /\ wsClientID64(q) \notin DOMAIN W1.wsClientMap
          /\ W2.cl[d] = W1.cl[d]

\* the ring deadline of the admitted caller's forwarded offer is armed and
\* no pickup was accepted in the session
Ringing ==
  /\ hub.deadline = "ring"
  /\ hub.CalleeClient # None
  /\ hub.CallerClient # None
  /\ cl[hub.CallerClient].callerOfferForwarded
  /\ ~pickupInSession

\* C17: when the ring deadline expires with no pickup accepted, the hub is
\* torn down: hub.CallerClient becomes none, no sessionDuration is sent and
\* one missed call is recorded when StoreMissedCalls is set, whether or not a
\* peer-connected report had arrived before the expiry.
C17_RingTimeoutTearsDown ==
  Ringing
  => \A user \in {"store", "nostore"} :
       LET W == timerExpiry(World, user)
       IN /\ W.hub.CallerClient = None
          /\ \A i \in 1..Len(W.out) : W.out[i].msg # "sessionDuration"
          /\ Len(W.missedCalls) = Len(missedCalls) + (IF user = "store" THEN 1 ELSE 0)

\* the status frame for endpoint t, if its socket is online
StatusTo(t) ==
  IF cl[t].isOnline
  THEN <<[to |-> t, msg |-> "status", from |-> None, body |-> <<>>]>>
  ELSE <<>>

\* the callee is attached and not peer-connected, and the caller of the hub
\* has had its offer forwarded
NoPeerCon ==
  /\ hub.CalleeClient # None
  /\ ~cl[hub.CalleeClient].isConnectedToPeer
  /\ hub.CallerClient # None
  /\ cl[hub.CallerClient].callerOfferForwarded

\* C18: when a watchdog fires: if the callee is attached and not
\* peer-connected and the attached caller's callerOfferForwarded is set, a
\* status message is written to the caller and to the callee, hub.CallerClient
\* becomes none and the stored caller IP is cleared (nothing else changes);
\* in every other case the watchdog changes nothing and writes nothing.
C18_WatchdogContract ==
  watchdog # {}
  => LET W == noPeerConCheck(World)
     IN IF NoPeerCon
        THEN /\ W.out = StatusTo(hub.CallerClient) \o StatusTo(hub.CalleeClient)
             /\ W.hub = [hub EXCEPT !.CallerClient = None, !.callerIp = None]
             /\ W.cl = cl
             /\ W.missedCalls = missedCalls
             /\ W.waitingCallers = waitingCallers
        ELSE W = World

\* a watchdog is pending while the callee is not peer-connected and the
\* caller's offer was forwarded, both sockets online and the caller IP stored
C18_Witness ==
  /\ watchdog # {}
  /\ NoPeerCon
  /\ cl[hub.CallerClient].isOnline /\ cl[hub.CalleeClient].isOnline
  /\ hub.callerIp # None

\* the sessionDuration frame for endpoint t, if its socket is online
SessionDurationTo(t) ==
  IF cl[t].isOnline
  THEN <<[to |-> t, msg |-> "sessionDuration", from |-> None, body |-> <<>>]>>
  ELSE <<>>

Modes == {"p2p", "relay"}

\* C19: within one session (since the caller's admission), a callee
\* Connected or ConForce report arms the talk deadline and broadcasts
\* sessionDuration exactly if it is the first such report of the session and
\* its modes are not both p2p (maxTalkSecsIfNoP2p > 0); a p2p/p2p report and
\* every repeated report arm nothing and broadcast nothing.
C19_TalkDeadlineOnFirstReport ==
  \A e \in Endpoints, constate \in {"Connected", "ConForce"},
     l \in Modes, r \in Modes :
    (Receiving(e) /\ cl[e].isCallee /\ hub.CalleeClient # None
       /\ hub.CallerClient # None)
    => LET W == receiveProcess(World, e, LogFrame(constate, l, r), "err", FALSE)
           first == /\ ~mediaInSession
                    /\ ~(l = "p2p" /\ r = "p2p")
                    /\ maxTalkSecsIfNoP2p > 0
       IN IF first
          THEN /\ "arm" \in W.ev
               /\ W.hub.deadline = "talk"
               /\ W.out = SessionDurationTo(hub.CalleeClient)
                            \o SessionDurationTo(hub.CallerClient)
          ELSE /\ "arm" \notin W.ev
               /\ W.hub.deadline = hub.deadline
               /\ W.out = <<>>

\* C20: under the default policy the caller's "log|caller Connected" makes
\* the server close the caller's socket and not the callee's; and the close
\* handler of that caller socket leaves hub.CalleeClient, the callee's
\* endpoint (online, isConnectedToPeer, isMediaConnectedToPeer) and
\* hub.lastCallStartTime as they were.
C20_CallerCloseKeepsCallee ==
  LET callee == hub.CalleeClient IN
  \A e \in Endpoints :
    /\ (Receiving(e) /\ hub.CallerClient = e /\ ~cl[e].isCallee /\ callee # None)
       => \A l \in Modes, r \in Modes :
            LET W == receiveProcess(World, e, LogFrame("Connected", l, r),
                                    "err", FALSE)
            IN /\ W.cl[e].st = "closing"
               /\ W.hub.CalleeClient = callee
               /\ W.cl[callee].st = cl[callee].st
               /\ W.cl[callee].isOnline = cl[callee].isOnline
               /\ W.cl[callee].isConnectedToPeer
               /\ W.cl[callee].isMediaConnectedToPeer
                    = cl[callee].isMediaConnectedToPeer
               /\ W.hub.lastCallStartTime = hub.lastCallStartTime
    /\ (cl[e].st = "closing" /\ cl[e].pc = "done" /\ ~cl[e].isCallee
          /\ callee # None)
       => \A user \in UserReads :
            LET W == doUnregister(CloseRun(e, user), e)
            IN /\ W.hub.CalleeClient = callee
               /\ W.cl[callee] = cl[callee]
               /\ W.hub.lastCallStartTime = hub.lastCallStartTime

\* the caller's socket is being closed by the server after its Connected
\* report, in a call that was picked up, the callee online and
\* media-connected
C20_Witness ==
  \E e \in Endpoints :
    /\ cl[e].st = "closing" /\ cl[e].pc = "done" /\ ~cl[e].isCallee
    /\ cl[e].isConnectedToPeer
    /\ hub.CallerClient = e
    /\ hub.CalleeClient # None
    /\ cl[hub.CalleeClient].isOnline
    /\ cl[hub.CalleeClient].isConnectedToPeer
    /\ cl[hub.CalleeClient].isMediaConnectedToPeer
    /\ hub.lastCallStartTime > 0

\* what endpoint t observes of a handler's run: its frames, in order
Observed(W, t) ==
  LET ToT(w) == w.to = t
      S == SelectSeq(W.out, ToT)
  IN [i \in 1..Len(S) |-> <<S[i].msg, S[i].body>>]

\* C21: on the first callerOffer of the admitted caller with the callee
\* attached, the callee observes the callerOffer with its payload, then
\* callerInfo (iff the caller gave an id or a name), then ua; the caller
\* observes ua; and the ring deadline is armed with these writes, and only if
\* the offer was written to the callee.
C21_OfferSequence ==
  \A e \in Endpoints :
    (Receiving(e) /\ hub.CallerClient = e /\ ~cl[e].isCallee
       /\ hub.CalleeClient # None /\ offersFwd[e] = 0)
    => LET callee == hub.CalleeClient
           W == receiveProcess(World, e, OfferFrame, "err", FALSE)
       IN IF cl[callee].isOnline
          THEN /\ Observed(W, callee) =
                    <<  <<"callerOffer", OfferFrame[2]>> >>
                    \o (IF HasCallerInfo(e) THEN << <<"callerInfo", <<>>>> >>
                                            ELSE <<>>)
                    \o << <<"ua", <<>>>> >>
               /\ Observed(W, e) = << <<"ua", <<>>>> >>
               /\ Len(W.out) = Len(Observed(W, callee)) + 1
               /\ "arm" \in W.ev
               /\ W.hub.deadline = "ring"
          ELSE /\ W.out = <<>>
               /\ "arm" \notin W.ev
               /\ W.hub.deadline = hub.deadline

\* the admitted caller, who gave its id, is about to send its first offer to
\* the attached callee
C21_Witness ==
  \E e \in Endpoints :
    /\ Receiving(e) /\ hub.CallerClient = e /\ ~cl[e].isCallee
    /\ hub.CalleeClient # None /\ cl[hub.CalleeClient].isOnline
    /\ offersFwd[e] = 0
    /\ HasCallerInfo(e)
    /\ hub.deadline = "none"

\* frames with a command the server does not know
GenericFrame == <<"candidate", <<"x">>>>
EmptyGenericFrame == <<"candidate", <<>>>>

\* the slot opposite to endpoint e
Opposite(e) == IF cl[e].isCallee THEN hub.CallerClient ELSE hub.CalleeClient

\* C22: a frame with an unknown command and a non-empty payload is written,
\* with its command and payload, to the endpoint in the opposite slot of the
\* hub and to no other endpoint, never to the sender; if the opposite slot is
\* empty (or its socket has closed) the frame is dropped and nothing of it is
\* kept for later; a frame with an empty payload is not forwarded.
C22_ForwardToOpposite ==
  \A e \in Endpoints :
    Receiving(e)
    => LET W == receiveProcess(World, e, GenericFrame, "err", FALSE)
           V == receiveProcess(World, e, EmptyGenericFrame, "err", FALSE)
           t == Opposite(e)
       IN /\ t # e
          /\ W.out = IF t # None /\ cl[t].isOnline
                     THEN <<[to |-> t, msg |-> GenericFrame[1], from |-> e,
                             body |-> GenericFrame[2]]>>
                     ELSE <<>>
          /\ [W EXCEPT !.out = <<>>] = World
          /\ V = World

\* a callee sends a frame while the caller slot is empty, a caller sends one
\* while the callee is attached
C22_Witness ==
  \E e \in Endpoints, d \in Endpoints :
    /\ Receiving(e) /\ cl[e].isCallee /\ hub.CalleeClient = e
    /\ Receiving(d) /\ ~cl[d].isCallee /\ cl[d].role = "caller"
    /\ hub.CallerClient = None

\* C23: calleeHidden, dialsoundsmuted, deleteMissedCall and
\* pickupWaitingCaller received from an endpoint whose role is caller change
\* neither hub.IsCalleeHidden, nor the callee's user record, nor the
\* persisted missed-calls list, and release no waiting caller; the caller's
\* socket stays open.
C23_CalleeOnlyCommands ==
  \A e \in Endpoints :
    (Receiving(e) /\ hub.CallerClient = e /\ ~cl[e].isCallee)
    => \A f \in ProfileFrames \cup {DeleteFrame(k) : k \in MissedKeys},
          user \in UserReads :
         LET W == receiveProcess(World, e, f, user, FALSE)
         IN /\ W.hub.IsCalleeHidden = hub.IsCalleeHidden
            /\ W.dbUserInt2 = dbUserInt2
            /\ W.missedCalls = missedCalls
            /\ W.releasedCallers = releasedCallers
            /\ W.cl[e].st = "open"

\* main()'s shutdown steps in the order of the claim
ShutdownSteps ==
  <<"flag", "stats", "contacts", "hashedpw", "notif", "calls", "main", "exit">>

\* C24: after the signal the shutdown flag is set first, then the stats file
\* is written, then, not before graceSecs have passed, the stores are closed
\* once each in the order contacts, hashedpw, notif, calls, main, then the
\* process exits with code 0; the keep-alive scanner sends no PING once the
\* flag is set and has stopped when its first tick after the flag is over.
C24_ShutdownOrder ==
  /\ proc.log = SubSeq(ShutdownSteps, 1, Len(proc.log))
  /\ proc.shutdownStarted <=> proc.log # <<>>
  /\ proc.statsFile.exists <=> Len(proc.log) >= 2
  /\ proc.closeAt >= 0 <=> Len(proc.log) >= 3
  /\ proc.closeAt >= 0 => proc.closeAt >= proc.statsAt + graceSecs
  /\ ~Running <=> proc.log = ShutdownSteps
  /\ IF Running THEN proc.exitCode < 0 ELSE proc.exitCode = 0
  /\ ~ka.pingAfterFlag
  /\ ka.stopped => proc.shutdownStarted
  /\ proc.shutdownStarted /\ ka.clock > proc.flagAt + scanPeriod => ka.stopped

\* the process has exited with every store closed; the scanner had stopped
\* while a PING to the open socket was due
C24_Witness ==
  /\ proc.pc = "exited"
  /\ proc.log = ShutdownSteps
  /\ ka.stopped
  /\ ~ka.closed
  /\ PingDue(ka.clock, ka.pingSendTime)

\* C25: at startup each of the three today-counters is loaded from its own
\* key of the stats file and from no other: a number is stored into the
\* counter of the same name, an empty value zeroes it, a missing key leaves
\* it as it was; and reading the file that writeStatsFile writes restores
\* the three written values.
C25_OwnKeyOnly ==
  /\ proc.pc = "serving" /\ proc.statsFile.exists =>
       \A k \in StatKeys :
         LET e == proc.statsFile.entries[k] IN
         /\ ~e.present => proc.counters[k] = ZeroCounters[k]
         /\ e.present /\ e.str = <<>> => proc.counters[k] = 0
         /\ e.present /\ e.str # <<>> /\ ~ParseInt(e.str).err =>
              proc.counters[k] = ParseInt(e.str).val
  /\ readStatsFile(ZeroCounters, writeStatsFile(proc.counters)) = proc.counters

\* C26: the watchdog started at the admission of caller x acts only on x:
\* when it fires while x's socket is gone and hub.CallerClient is another
\* endpoint, it writes no status message and leaves hub.CallerClient alone.
C26_WatchdogOwnCaller ==
  \A x \in watchdog :
    cl[x].st # "open" /\ hub.CallerClient # None /\ hub.CallerClient # x
    => LET W == noPeerConCheck(World)
       IN /\ W.out = <<>>
          /\ W.hub.CallerClient = hub.CallerClient

\* C27: peerConHasEnded invoked on a caller endpoint is a no-op: the hub
\* (its deadline, lastCallStartTime, CallDurationSecs, ConnectedToPeerSecs,
\* CallerClient) and every endpoint flag stay as they were and no missed
\* call is recorded.
C27_CallerTeardownNoOp ==
  \A c \in Endpoints, user \in UserReads :
    Receiving(c) /\ ~cl[c].isCallee
    => LET W == peerConHasEnded(World, c, user)
       IN /\ W.hub = hub
          /\ W.cl = cl
          /\ W.missedCalls = missedCalls

\* C29: after peerConHasEnded on the callee endpoint, whether or not the
\* callee was peer-connected on entry: isConnectedToPeer and
\* isMediaConnectedToPeer are false on the callee and on the endpoint that was
\* the caller, hub.CallerClient is none, hub.lastCallStartTime is 0,
\* calleeInitReceived is false and the stored caller IP is cleared.
C29_TeardownPostcondition ==
  \A user \in UserReads :
    LET callee == hub.CalleeClient
        caller == hub.CallerClient
    IN callee # None /\ cl[callee].isCallee
       => LET W == peerConHasEnded(World, callee, user)
          IN /\ ~W.cl[callee].isConnectedToPeer
             /\ ~W.cl[callee].isMediaConnectedToPeer
             /\ caller # None => /\ ~W.cl[caller].isConnectedToPeer
                                 /\ ~W.cl[caller].isMediaConnectedToPeer
             /\ W.hub.CallerClient = None
             /\ W.hub.lastCallStartTime = 0
             /\ ~W.cl[callee].calleeInitReceived
             /\ W.hub.callerIp = None

\* the peer-connected reports
ReportFrames ==
  { LogFrame(constate, l, "p2p") :
      constate \in {"Incoming", "Connected", "ConForce"}, l \in Modes }

\* C28 as stated: after a peer-connected report from the hub's callee or
\* caller, received while both slots are filled, isConnectedToPeer is true on
\* the hub's callee endpoint and on the hub's caller endpoint.
C28_ReportConnectsBoth ==
  \A c \in {hub.CalleeClient, hub.CallerClient}, f \in ReportFrames :
    hub.CalleeClient # None /\ hub.CallerClient # None /\ Receiving(c)
    => LET W == receiveProcess(World, c, f, "err", FALSE)
       IN /\ W.cl[hub.CalleeClient].isConnectedToPeer
          /\ W.cl[hub.CallerClient].isConnectedToPeer

\* C28 amended: after such a report isConnectedToPeer is true on the
\* reporting endpoint and on the hub's callee endpoint; a report of the
\* callee leaves the caller endpoint's flag as it was.
C28_ReportConnectsReporterAndCallee ==
  \A c \in {hub.CalleeClient, hub.CallerClient}, f \in ReportFrames :
    hub.CalleeClient # None /\ hub.CallerClient # None /\ Receiving(c)
    => LET W == receiveProcess(World, c, f, "err", FALSE)
       IN /\ W.cl[c].isConnectedToPeer
          /\ W.cl[hub.CalleeClient].isConnectedToPeer
          /\ c = hub.CalleeClient =>
               W.cl[hub.CallerClient].isConnectedToPeer
                 = cl[hub.CallerClient].isConnectedToPeer

\* the callee has reported and the caller has not: only the callee is
\* peer-connected, both sockets open
C28_Witness ==
  /\ hub.CalleeClient # None /\ hub.CallerClient # None
  /\ Receiving(hub.CalleeClient) /\ Receiving(hub.CallerClient)
  /\ cl[hub.CalleeClient].isConnectedToPeer
  /\ ~cl[hub.CallerClient].isConnectedToPeer

\* C30 as stated: on cancel from either side, if the callee is attached and
\* peer-connected, peerConHasEnded runs on the callee endpoint; in every
\* other case (callee not peer-connected, or callee absent) no teardown runs
\* and the sender's socket is closed.
C30_CancelClosesStray ==
  \A c \in Endpoints, user \in UserReads :
    Receiving(c)
    => LET W == receiveProcess(World, c, CancelFrame, user, FALSE)
           callee == hub.CalleeClient
       IN IF callee # None /\ cl[callee].isConnectedToPeer
          THEN {"pcheCallee", "teardown"} \subseteq W.ev
          ELSE /\ "peerConHasEnded" \notin W.ev
               /\ W.cl[c].st = "closing"

\* C30 amended: with the callee attached and peer-connected the teardown
\* runs on the callee endpoint and empties the caller slot; with the callee
\* attached and not peer-connected the frame is ignored, nothing changes and
\* the sender's socket stays open; with the callee absent no teardown runs
\* and the sender's socket is closed, nothing else changes.
C30_CancelContract ==
  \A c \in Endpoints, user \in UserReads :
    Receiving(c)
    => LET W == receiveProcess(World, c, CancelFrame, user, FALSE)
           callee == hub.CalleeClient
       IN IF callee = None
          THEN /\ "peerConHasEnded" \notin W.ev
               /\ W.cl[c].st = "closing"
               /\ W.hub = hub
               /\ \A e \in Endpoints \ {c} : W.cl[e] = cl[e]
          ELSE IF cl[callee].isConnectedToPeer
          THEN /\ {"pcheCallee", "teardown"} \subseteq W.ev
               /\ W.hub.CallerClient = None
               /\ ~W.cl[callee].isConnectedToPeer
          ELSE W = World

\* the caller's offer rings at a callee that is not peer-connected, and the
\* caller's socket is open to send cancel
C30_Witness ==
  /\ hub.CalleeClient # None /\ hub.CallerClient # None
  /\ ~cl[hub.CalleeClient].isConnectedToPeer
  /\ hub.deadline = "ring"
  /\ Receiving(hub.CallerClient)

\* the endpoint of the other slot of the hub, None if there is none
Remaining(e) ==
  IF hub.CalleeClient = e THEN hub.CallerClient
  ELSE IF hub.CallerClient = e THEN hub.CalleeClient
  ELSE None

\* C31: when the socket of the hub's callee or caller closes while that
\* endpoint is peer-connected, peerConHasEnded runs before doUnregister:
\* after the close handler the remaining endpoint's isConnectedToPeer and
\* isMediaConnectedToPeer are false and hub.CallerClient is none; when the
\* closing endpoint is not peer-connected, peerConHasEnded does not run.
C31_CloseEndsPeerCon ==
  \A e \in {hub.CalleeClient, hub.CallerClient}, user \in UserReads :
    e # None /\ cl[e].st \in {"open", "closing"} /\ cl[e].pc = "done"
    => LET W == doUnregister(CloseRun(e, user), e)
           r == Remaining(e)
       IN IF cl[e].isConnectedToPeer
          THEN /\ "peerConHasEnded" \in W.ev
               /\ r # None => /\ ~W.cl[r].isConnectedToPeer
                              /\ ~W.cl[r].isMediaConnectedToPeer
               /\ W.hub.CallerClient = None
          ELSE "peerConHasEnded" \notin W.ev

\* C32: no task performs a socket write, a socket close or a sleep while it
\* holds the hub mutex, in read or in write mode.
C32_NoIoUnderMutex ==
  \A t \in Tasks : ~Idle(t) /\ NextOp(t).op = "io" => ~Holds(t)

\* C33: every write to a non-atomic hub field is performed by a task that
\* holds the hub mutex in write mode, every read of such a field that decides
\* a transition by a task that holds it at least in read mode, and no two
\* tasks are at a write of the same field at once.
C33_FieldsUnderMutex ==
  /\ \A t \in Tasks :
       ~Idle(t) =>
         /\ NextOp(t).op = "write" => lk.writer = t
         /\ NextOp(t).op = "read" => Holds(t)
  /\ \A t \in Tasks, u \in Tasks :
       ~(/\ t # u /\ ~Idle(t) /\ ~Idle(u)
         /\ NextOp(t).op = "write" /\ NextOp(u).op = "write"
         /\ NextOp(t).arg = NextOp(u).arg)

\* C34: every inbound event sets the time of the next PING to now +
\* pingPeriod and clears the read deadline; a socket that has not been silent
\* for more than pingPeriod seconds since it was registered has been sent no
\* PING, has no read deadline set and is not closed.
C34_InboundPostponesPing ==
  /\ ~ka.closed =>
       /\ InboundEvent(ka).pingSendTime = ka.clock + pingPeriod
       /\ InboundEvent(ka).readDeadline = None
  /\ ~ka.lapsed =>
       /\ ~ka.pinged
       /\ ka.readDeadline = None
       /\ ~ka.closed

\* the socket is registered longer than pingPeriod plus a scan period and has
\* never been silent for more than pingPeriod seconds; its last inbound
\* event is exactly pingPeriod seconds old and the tick of this second is served
C34_Witness ==
  /\ ka.clock > pingPeriod + scanPeriod
  /\ ~ka.lapsed
  /\ ka.clock = ka.quietSince + pingPeriod
  /\ TickerFires(ka) /\ ka.scanned
\* the records for address addr with a call time within 1 s of time t
RecordsNear(list, addr, t) ==
  { i \in 1..Len(list) : /\ list[i].AddrPort = addr
                         /\ list[i].CallTime \in (t - 1)..(t + 1) }

MissedCallFrame == <<"missedcall", <<"text">>>>

\* C35: when the caller of a peer-connected session with no pickup sends
\* missedcall|<text> and the session is then torn down with
\* CallDurationSecs = 0, missedCalls gains at most one record for that
\* caller's address within +/-1 s of the call time.
C35_OneRecordPerCall ==
  LET callee == hub.CalleeClient
      caller == hub.CallerClient
  IN (/\ callee # None /\ caller # None
      /\ cl[callee].isConnectedToPeer
      /\ cl[caller].st = "open" /\ cl[caller].pc = "done"
      /\ hub.lastCallStartTime = 0 /\ hub.CallDurationSecs = 0)
     => LET W1 == receiveProcess(World, caller, MissedCallFrame, "store", FALSE)
            W2 == peerConHasEnded(W1, callee, "store")
        IN /\ W2.hub.CallDurationSecs = 0
           /\ Cardinality(RecordsNear(W2.missedCalls, caller, now))
                <= Cardinality(RecordsNear(missedCalls, caller, now)) + 1
\* C36: an accepted pickup leaves no deadline armed, no ring deadline is armed
\* in a session in which a pickup has been accepted, and peerConHasEnded on
\* any endpoint, for any cause, leaves no deadline armed.
C36_PickupDisarmsRing ==
  /\ \A e \in Endpoints :
       cl[e].st = "open" /\ cl[e].pc = "done"
       => LET W == receiveProcess(World, e, PickupFrame, "err", FALSE)
          IN "pickup" \in W.ev => W.hub.deadline = "none"
  /\ pickupInSession => hub.deadline # "ring"
  /\ \A e \in Endpoints, user \in UserReads :
       cl[e].pc = "done"
       => peerConHasEnded(World, e, user).hub.deadline = "none"
\* C37: in a session that is not fully P2P the talk deadline armed at the
\* first callee media-connected report stays armed until teardown: no frame
\* that is processed without running peerConHasEnded, a pickup in
\* particular, leaves the hub without an armed deadline.
C37_TalkDeadlineStays ==
  (hub.deadline = "talk" /\ ~(hub.LocalP2p /\ hub.RemoteP2p))
  => \A e \in Paired, tok \in Frames, user \in UserReads :
       Receiving(e)
       => LET W == receiveProcess(World, e, tok, user, FALSE)
          IN "peerConHasEnded" \notin W.ev => W.hub.deadline # "none"
\* C38: the processing of every inbound frame returns, so that the endpoint's
\* receive task can take the next frame; pickupWaitingCaller|<addrPort>
\* returns also when no channel is registered under <addrPort> and when no
\* HTTP request is receiving on it.
C38_HandlerReturns ==
  \A e \in Paired, tok \in Frames \cup ProfileFrames, user \in UserReads :
    Receiving(e)
    => LET W == receiveProcess(World, e, tok, user, FALSE)
       IN /\ W.cl[e].pc = "done"
          /\ "blocked" \notin W.ev
\* the online endpoints with the callee role whose serve() has returned
OnlineCallees == { e \in Endpoints : /\ cl[e].isCallee /\ cl[e].isOnline
                                     /\ cl[e].pc = "done" }

\* C39: at any time at most one online endpoint has the callee role, and it
\* is hub.CalleeClient, also when two upgrades run concurrently while the
\* callee slot is vacant.
C39_OneCallee ==
  /\ Cardinality(OnlineCallees) <= 1
  /\ \A e \in OnlineCallees : hub.CalleeClient = e
\* C40: in every reachable state hub.lastCallStartTime > 0 implies that the
\* callee is attached and that the callee's isConnectedToPeer is true.
C40_CallStartNeedsPeerCon ==
  hub.lastCallStartTime > 0
  => /\ hub.CalleeClient # None
     /\ cl[hub.CalleeClient].isConnectedToPeer
====
